---------------------------- MODULE Spec2Model ----------------------------
(***************************************************************************)
(* Verification model of prereview: the suggestion protocol (response      *)
(* parser), the patch applier and the interactive review session.          *)
(*                                                                         *)
(* Go strings are modelled as sequences of one-character strings, so that  *)
(* substring search, trimming, prefix tests and integer parsing are        *)
(* computed the way the code computes them.  File names are opaque.        *)
(***************************************************************************)
EXTENDS Integers, Sequences, FiniteSets, TLC

VARIABLES
  worktree,     \* file name -> content of the file on disk (working tree)
  index,        \* file name -> content registered in the staging area
  last,         \* record of the most recent applyFix call (history)
  input,        \* parseReviewResponse's arguments: the reply text and the file
  lines,        \* the reply split into lines
  pos,          \* index in lines of the next line to read
  p,            \* the locals of parseStructuredResponse
  ppc,          \* where the parser is: "idle", "start", "loop", "done", "panic"
  ret,          \* what parseReviewResponse returned: suggestions and error
  sent,         \* the record a reply was written from (history), <<>> if none
  session,      \* the ReviewSession: suggestions, current, fixed, skipped, skippedMap
  pc,           \* where Run is: "idle", "run", "prompt", "confirm", "decide", "done"
  eof,          \* standard input has reached its end
  outcome,      \* the SessionOutcome Run returned, <<>> before it returns
  event,        \* what the last step of Run did (history)
  typed,        \* what the last read of standard input returned (history)
  changes,      \* Review's argument: the file changes, each with Path and IsBinary
  assistant,    \* per change, what Chat does when asked: fail, or the records it replies
  result,       \* Review's ReviewResult under construction: Files and Suggestions
  ri,           \* index in changes of the change the loop of Review is at
  rpc,          \* where Review is: "idle", "start", "loop", "done", "panic"
  calls,        \* the requests sent to the assistant so far, in order (history)
  rret,         \* what Review returned, <<>> before it returns
  allChanges,   \* runReview: the staged changes, each with Path and the length of Content
  ignorePatterns, \* the configured ignore_patterns
  maxFileSize,  \* the configured max_file_size
  filteredChanges, \* runReview's filteredChanges
  refiltered,   \* the filter applied to filteredChanges
  fpc,          \* where the filter is: "idle", "start", "filtered", "refiltered"
  mu,           \* Client.mu: the caller that holds it, or Unlocked
  chat,         \* per caller of Chat: where it is in Chat and the locals of the call
  started,      \* per caller: the number of Chat calls it has made (history)
  returned,     \* per caller: the number of Chat calls that have returned (history)
  crashed,      \* the process has panicked
  config,       \* the flags of the run: strict, hook, output_markdown
  runpc,        \* where runReview is: "idle", "start", "session", "exited"
  found,        \* len(result.Suggestions) of the last Review, -1 before it (history)
  exitCode      \* the exit status of the process, <<>> while it runs

patchVars == <<worktree, index, last>>
parseVars == <<input, lines, pos, p, ppc, ret, sent>>
sessionVars == <<session, pc, eof, outcome, event, typed>>
reviewVars == <<changes, assistant, result, ri, rpc, calls, rret>>
filterVars == <<allChanges, ignorePatterns, maxFileSize, filteredChanges, refiltered, fpc>>
chatVars == <<mu, chat, started, returned, crashed>>
runVars == <<config, runpc, found, exitCode>>
extVars == <<filterVars, chatVars, runVars>>
vars == <<worktree, index, last, input, lines, pos, p, ppc, ret, sent,
          session, pc, eof, outcome, event, typed,
          changes, assistant, result, ri, rpc, calls, rret,
          allChanges, ignorePatterns, maxFileSize, filteredChanges, refiltered, fpc,
          mu, chat, started, returned, crashed,
          config, runpc, found, exitCode>>

---------------------------------------------------------------------------
(* Bounds of the model *)

MaxContentLen == 3
MaxSnippetLen == 2
MaxLines == 4
MaxValueLen == 2
MaxBlockLines == 2
MaxSuggestions == 2
MaxChanges == 2
MaxCalls == 2
MaxEvents == 3

---------------------------------------------------------------------------
(* Strings *)

Empty == <<>>
NA == <<"N", "/", "A">>

Min(a, b) == IF a <= b THEN a ELSE b

StrUpTo(A, n) == UNION {[1..k -> A] : k \in 0..n}

\* s[i:j] of Go, with 0-based offsets i <= j
Slice(s, i, j) == SubSeq(s, i + 1, j)

\* strings.Index: offset of the first occurrence of substr in s, -1 if none
Index(s, substr) ==
  LET n == Len(substr)
      hits == {i \in 0..(Len(s) - n) : Slice(s, i, i + n) = substr}
  IN IF hits = {} THEN -1 ELSE CHOOSE i \in hits : \A j \in hits : i <= j

\* strings.Contains
Contains(s, substr) == Index(s, substr) >= 0

\* strings.Count: number of non-overlapping occurrences (len+1 for an empty substr)
RECURSIVE CountFrom(_, _, _)
CountFrom(s, substr, start) ==
  LET i == Index(Slice(s, start, Len(s)), substr)
  IN IF i < 0 THEN 0 ELSE 1 + CountFrom(s, substr, start + i + Len(substr))

Count(s, substr) ==
  IF Len(substr) = 0 THEN Len(s) + 1 ELSE CountFrom(s, substr, 0)

\* the replacement loop of strings.Replace: i replacements done, copying from start
RECURSIVE ReplaceLoop(_, _, _, _, _, _)
ReplaceLoop(s, old, new, start, i, n) ==
  IF i = n THEN Slice(s, start, Len(s))
  ELSE LET j == IF Len(old) = 0
                THEN (IF i > 0 THEN start + 1 ELSE start)
                ELSE start + Index(Slice(s, start, Len(s)), old)
       IN Slice(s, start, j) \o new \o ReplaceLoop(s, old, new, j + Len(old), i + 1, n)

\* a replacement that rewrites every occurrence (the n < 0 behaviour)
ReplaceEvery(s, old, new, n) ==
  IF old = new THEN s
  ELSE LET m == Count(s, old)
       IN IF m = 0 THEN s ELSE ReplaceLoop(s, old, new, 0, 0, m)

\* strings.Replace(s, old, new, n)
Replace(s, old, new, n) ==
  IF old = new \/ n = 0 THEN s
  ELSE LET m == Count(s, old)
       IN IF m = 0 THEN s
          ELSE ReplaceLoop(s, old, new, 0, 0, IF n < 0 \/ m < n THEN m ELSE n)

\* strings.HasPrefix
hasPrefix(s, prefix) ==
  Len(s) >= Len(prefix) /\ SubSeq(s, 1, Len(prefix)) = prefix

\* unicode.IsSpace, on the white space the model's texts use
IsSpace(c) == c \in {" ", "\t", "\n", "\r", "\f"}

\* strings.TrimSpace
RECURSIVE TrimLeft(_)
TrimLeft(s) == IF s # <<>> /\ IsSpace(Head(s)) THEN TrimLeft(Tail(s)) ELSE s

RECURSIVE TrimRight(_)
TrimRight(s) ==
  IF s # <<>> /\ IsSpace(s[Len(s)]) THEN TrimRight(SubSeq(s, 1, Len(s) - 1)) ELSE s

TrimSpace(s) == TrimRight(TrimLeft(s))

Upper == <<"A", "B", "C", "D", "E", "F", "G", "H", "I", "J", "K", "L", "M",
           "N", "O", "P", "Q", "R", "S", "T", "U", "V", "W", "X", "Y", "Z">>
Lower == <<"a", "b", "c", "d", "e", "f", "g", "h", "i", "j", "k", "l", "m",
           "n", "o", "p", "q", "r", "s", "t", "u", "v", "w", "x", "y", "z">>

\* strings.ToLower
ToLower(str) ==
  [i \in 1..Len(str) |->
     IF \E k \in 1..26 : Upper[k] = str[i]
     THEN Lower[CHOOSE k \in 1..26 : Upper[k] = str[i]]
     ELSE str[i]]

\* strings.Join(lines, "\n")
RECURSIVE joinLines(_)
joinLines(ls) ==
  IF ls = <<>> THEN <<>>
  ELSE IF Len(ls) = 1 THEN ls[1]
  ELSE ls[1] \o <<"\n">> \o joinLines(Tail(ls))

\* strings.Split(s, "\n"): at least one line, the empty one for an empty text
RECURSIVE splitLines(_)
splitLines(s) ==
  LET i == Index(s, <<"\n">>)
  IN IF i < 0 THEN <<s>>
     ELSE <<Slice(s, 0, i)>> \o splitLines(Slice(s, i + 1, Len(s)))

Digits == <<"0", "1", "2", "3", "4", "5", "6", "7", "8", "9">>
IsDigit(c) == \E d \in 1..10 : Digits[d] = c
DigitValue(c) == (CHOOSE d \in 1..10 : Digits[d] = c) - 1

RECURSIVE DecimalValue(_)
DecimalValue(s) ==
  IF s = <<>> THEN 0
  ELSE 10 * DecimalValue(SubSeq(s, 1, Len(s) - 1)) + DigitValue(s[Len(s)])

\* strconv.Atoi on texts of fewer than 19 characters (the path that cannot
\* overflow): an optional sign, then one or more decimal digits
Atoi(s) ==
  LET body == IF s # <<>> /\ s[1] \in {"-", "+"} THEN Tail(s) ELSE s
  IN IF body = <<>> \/ \E i \in 1..Len(body) : ~IsDigit(body[i])
     THEN [n |-> 0, err |-> TRUE]
     ELSE [n |-> IF s[1] = "-" THEN -DecimalValue(body) ELSE DecimalValue(body),
           err |-> FALSE]

---------------------------------------------------------------------------
(* Suggestions *)

Files == {"f1", "f2"}

\* the zero value of review.Suggestion for a file
NewSuggestion(file) ==
  [File |-> file, Line |-> 0, EndLine |-> 0, Severity |-> Empty,
   Confidence |-> Empty, Title |-> Empty, Description |-> Empty,
   OriginalCode |-> Empty, SuggestFix |-> Empty, Category |-> Empty]

---------------------------------------------------------------------------
(* Patch Applier *)

\* outcomes the environment can produce for one applyFix call
Envs ==
  {e \in [read : {"ok", "err"}, write : {"ok", "open_err", "io_err"},
           written : 0..(MaxContentLen + MaxSnippetLen), stage : {"ok", "err"}] :
     e.write # "io_err" => e.written = 0}

\* a write whose failure to open the file is not reported
WriteFileSwallowsError(wt, name, data, env) ==
  CASE env.write = "open_err" -> [err |-> FALSE, worktree |-> wt]
    [] env.write = "io_err" ->
         [err |-> TRUE,
          worktree |-> [wt EXCEPT ![name] = Slice(data, 0, Min(env.written, Len(data)))]]
    [] OTHER -> [err |-> FALSE, worktree |-> [wt EXCEPT ![name] = data]]

\* os.WriteFile: open with O_TRUNC (may fail, file untouched), then write and
\* close (may fail after the file was truncated and env.written bytes written)
WriteFile(wt, name, data, env) ==
  CASE env.write = "open_err" -> [err |-> TRUE, worktree |-> wt]
    [] env.write = "io_err" ->
         [err |-> TRUE,
          worktree |-> [wt EXCEPT ![name] = Slice(data, 0, Min(env.written, Len(data)))]]
    [] OTHER -> [err |-> FALSE, worktree |-> [wt EXCEPT ![name] = data]]

\* git add <file>: registers the file's current content, or fails
GitAdd(wt, ix, name, env) ==
  IF env.stage = "ok" THEN [ix EXCEPT ![name] = wt[name]] ELSE ix

\* applyFix returning before anything is written
NotApplied(wt, ix) ==
  [ok |-> FALSE, worktree |-> wt, index |-> ix, wrote |-> FALSE, staged |-> FALSE,
   warned |-> FALSE]

\* an applyFix that gives up when git add fails
stageChangeFatal(w, ix, sug, env) ==
  [ok |-> env.stage = "ok", worktree |-> w.worktree,
   index |-> GitAdd(w.worktree, ix, sug.File, env),
   wrote |-> TRUE, staged |-> TRUE, warned |-> env.stage = "err"]

\* the end of applyFix, after the write: git add, a warning if it fails, and
\* success either way
stageChange(w, ix, sug, env) ==
  [ok |-> TRUE, worktree |-> w.worktree,
   index |-> GitAdd(w.worktree, ix, sug.File, env),
   wrote |-> TRUE, staged |-> TRUE, warned |-> env.stage = "err"]

\* applyFix without the test that the replacement changed the content
applyFixNoChangeTest(sug, wt, ix, env) ==
  IF sug.SuggestFix = Empty \/ sug.SuggestFix = NA THEN NotApplied(wt, ix)
  ELSE IF sug.OriginalCode = Empty \/ sug.OriginalCode = NA THEN NotApplied(wt, ix)
  ELSE IF env.read = "err" THEN NotApplied(wt, ix)
  ELSE LET fileContent == wt[sug.File]
           newContent == Replace(fileContent, sug.OriginalCode, sug.SuggestFix, 1)
           w == WriteFile(wt, sug.File, newContent, env)
       IN IF ~Contains(fileContent, sug.OriginalCode) THEN NotApplied(wt, ix)
          ELSE IF w.err
          THEN [ok |-> FALSE, worktree |-> w.worktree, index |-> ix,
                wrote |-> TRUE, staged |-> FALSE, warned |-> FALSE]
          ELSE stageChange(w, ix, sug, env)

\* ReviewSession.applyFix: the result, the files afterwards, and whether a
\* write and a staging were attempted
applyFix(sug, wt, ix, env) ==
  IF sug.SuggestFix = Empty \/ sug.SuggestFix = NA THEN NotApplied(wt, ix)
  ELSE IF sug.OriginalCode = Empty \/ sug.OriginalCode = NA THEN NotApplied(wt, ix)
  ELSE IF env.read = "err" THEN NotApplied(wt, ix)
  ELSE LET fileContent == wt[sug.File]
           newContent == Replace(fileContent, sug.OriginalCode, sug.SuggestFix, 1)
           w == WriteFile(wt, sug.File, newContent, env)
       IN IF ~Contains(fileContent, sug.OriginalCode) THEN NotApplied(wt, ix)
          ELSE IF newContent = fileContent THEN NotApplied(wt, ix)
          ELSE IF w.err
          THEN [ok |-> FALSE, worktree |-> w.worktree, index |-> ix,
                wrote |-> TRUE, staged |-> FALSE, warned |-> FALSE]
          ELSE stageChange(w, ix, sug, env)

\* history of an applyFix call: its input, the files before, its outcome and
\* whether it warned that the file could not be staged
\* (n is 1 once applyFix has been called, 0 before)
Applied(n, sug, wt, ix, r) ==
  [n |-> n, sug |-> sug, before |-> wt, indexBefore |-> ix,
   ok |-> r.ok, wrote |-> r.wrote, staged |-> r.staged, warned |-> r.warned]

NoCall ==
  [n |-> 0, sug |-> NewSuggestion("f1"), before |-> [f \in Files |-> Empty],
   indexBefore |-> [f \in Files |-> Empty],
   ok |-> FALSE, wrote |-> FALSE, staged |-> FALSE, warned |-> FALSE]

---------------------------------------------------------------------------
(* Response Parser *)

kSep == <<"-", "-", "-">>
kOpen == <<"<", "<", "<">>
kClose == <<">", ">", ">">>
NO_ISSUES == <<"N", "O", "_", "I", "S", "S", "U", "E", "S">>

pLINE == <<"L", "I", "N", "E", ":">>
pEND_LINE == <<"E", "N", "D", "_", "L", "I", "N", "E", ":">>
pSEVERITY == <<"S", "E", "V", "E", "R", "I", "T", "Y", ":">>
pCONFIDENCE == <<"C", "O", "N", "F", "I", "D", "E", "N", "C", "E", ":">>
pCATEGORY == <<"C", "A", "T", "E", "G", "O", "R", "Y", ":">>
pTITLE == <<"T", "I", "T", "L", "E", ":">>
pDESCRIPTION == <<"D", "E", "S", "C", "R", "I", "P", "T", "I", "O", "N", ":">>
pORIGINAL == <<"O", "R", "I", "G", "I", "N", "A", "L", ":">>
pFIX == <<"F", "I", "X", ":">>

parseStringValue(line, prefix) ==
  IF Len(line) <= Len(prefix) THEN Empty
  ELSE TrimSpace(Slice(line, Len(prefix), Len(line)))

\* parseIntValue that passes a parse failure on as -1
parseIntValueMinusOne(line, prefix) ==
  LET a == Atoi(parseStringValue(line, prefix))
  IN IF a.err THEN -1 ELSE a.n

parseIntValue(line, prefix) ==
  LET a == Atoi(parseStringValue(line, prefix))
  IN IF a.err THEN 0 ELSE a.n

\* locals that start with a record already open
ParserStartWithRecord ==
  [suggestions |-> <<>>, current |-> <<[File |-> "f1", Line |-> 0, EndLine |-> 0,
     Severity |-> <<>>, Confidence |-> <<>>, Title |-> <<>>, Description |-> <<>>,
     OriginalCode |-> <<>>, SuggestFix |-> <<>>, Category |-> <<>>]>>,
   multiLineField |-> "", multiLineContent |-> <<>>, inMultiLine |-> FALSE,
   lastField |-> "", panicked |-> FALSE]

\* the locals of parseStructuredResponse before its loop; current is <<>> for
\* a nil pointer and <<suggestion>> otherwise
ParserStart ==
  [suggestions |-> <<>>, current |-> <<>>, multiLineField |-> "",
   multiLineContent |-> <<>>, inMultiLine |-> FALSE, lastField |-> "",
   panicked |-> FALSE]

\* a write through current: a nil pointer dereference when there is no record
SetField(q, field, value) ==
  IF q.current = <<>> THEN [q EXCEPT !.panicked = TRUE]
  ELSE [q EXCEPT !.current[1][field] = value]

\* a flush that appends the record whatever its title
flushUntitled(q) ==
  IF q.current # <<>> THEN Append(q.suggestions, q.current[1]) ELSE q.suggestions

\* the record in progress is appended when it has a title (lines 307-309, 366-368)
flush(q) ==
  IF q.current # <<>> /\ q.current[1].Title # Empty
  THEN Append(q.suggestions, q.current[1])
  ELSE q.suggestions

\* a close that writes every block to ORIGINAL
closeBlockToOriginal(q) ==
  [SetField(q, "OriginalCode", joinLines(q.multiLineContent))
     EXCEPT !.inMultiLine = FALSE, !.multiLineField = "", !.multiLineContent = <<>>]

\* a line equal to >>> while in a block
closeBlock(q) ==
  LET content == joinLines(q.multiLineContent)
      w == IF q.multiLineField = "ORIGINAL" THEN SetField(q, "OriginalCode", content)
           ELSE IF q.multiLineField = "FIX" THEN SetField(q, "SuggestFix", content)
           ELSE q
  IN [w EXCEPT !.inMultiLine = FALSE, !.multiLineField = "", !.multiLineContent = <<>>]

\* a block that keeps its lines without their surrounding white space
accumulateTrimmed(q, line) ==
  [q EXCEPT !.multiLineContent = Append(q.multiLineContent, TrimSpace(line))]

\* any other line while in a block
accumulate(q, line) ==
  [q EXCEPT !.multiLineContent = Append(q.multiLineContent, line)]

\* a --- that drops the record in progress
startRecordNoFlush(q, file) ==
  [q EXCEPT !.current = <<NewSuggestion(file)>>, !.lastField = ""]

\* a line equal to ---
startRecord(q, file) ==
  [q EXCEPT !.suggestions = flush(q), !.current = <<NewSuggestion(file)>>,
            !.lastField = ""]

\* a line equal to <<<
openBlock(q) ==
  [q EXCEPT !.multiLineField = q.lastField, !.inMultiLine = TRUE,
            !.multiLineContent = <<>>]

\* ORIGINAL: or FIX: with the rest of the line
blockField(q, name, field, rest) ==
  LET r == [q EXCEPT !.lastField = name]
  IN IF rest # Empty /\ rest # NA THEN SetField(r, field, rest)
     ELSE IF rest = NA THEN SetField(r, field, Empty)
     ELSE r

\* the chain of field prefixes
parseField(q, line) ==
  IF hasPrefix(line, pLINE) THEN SetField(q, "Line", parseIntValue(line, pLINE))
  ELSE IF hasPrefix(line, pEND_LINE)
  THEN SetField(q, "EndLine", parseIntValue(line, pEND_LINE))
  ELSE IF hasPrefix(line, pSEVERITY)
  THEN SetField(q, "Severity", parseStringValue(line, pSEVERITY))
  ELSE IF hasPrefix(line, pCONFIDENCE)
  THEN SetField(q, "Confidence", parseStringValue(line, pCONFIDENCE))
  ELSE IF hasPrefix(line, pCATEGORY)
  THEN SetField(q, "Category", parseStringValue(line, pCATEGORY))
  ELSE IF hasPrefix(line, pTITLE)
  THEN SetField(q, "Title", parseStringValue(line, pTITLE))
  ELSE IF hasPrefix(line, pDESCRIPTION)
  THEN SetField(q, "Description", parseStringValue(line, pDESCRIPTION))
  ELSE IF hasPrefix(line, pORIGINAL)
  THEN blockField(q, "ORIGINAL", "OriginalCode", parseStringValue(line, pORIGINAL))
  ELSE IF hasPrefix(line, pFIX)
  THEN blockField(q, "FIX", "SuggestFix", parseStringValue(line, pFIX))
  ELSE q

\* a parser that never skips a line for want of a record
noRecordNever(q) == FALSE

\* no record has been started yet (line 315)
noRecord(q) == q.current = <<>>

\* one iteration of the loop of parseStructuredResponse
parseLine(q, line, file) ==
  IF q.inMultiLine /\ line = kClose THEN closeBlock(q)
  ELSE IF q.inMultiLine THEN accumulate(q, line)
  ELSE IF line = kSep THEN startRecord(q, file)
  ELSE IF noRecord(q) THEN q
  ELSE IF line = kOpen THEN openBlock(q)
  ELSE parseField(q, line)

\* nothing returned yet
NoReturn == [suggestions |-> <<>>, err |-> "none"]

\* parseReviewResponse: the sentinel and the empty reply return at once
ParseBegin ==
  /\ ppc = "start"
  /\ IF input.response = NO_ISSUES \/ input.response = Empty
     THEN /\ ppc' = "done"
          /\ ret' = [suggestions |-> <<>>, err |-> "nil"]
          /\ UNCHANGED <<lines, pos, p>>
     ELSE /\ ppc' = "loop"
          /\ lines' = splitLines(input.response)
          /\ pos' = 1
          /\ p' = ParserStart
          /\ ret' = ret
  /\ UNCHANGED <<input, sent, patchVars, sessionVars, reviewVars, extVars>>

\* parseStructuredResponse: the next line of the reply
ParseLine ==
  /\ ppc = "loop"
  /\ pos <= Len(lines)
  /\ p' = parseLine(p, lines[pos], input.file)
  /\ ppc' = IF p'.panicked THEN "panic" ELSE "loop"
  /\ pos' = pos + 1
  /\ UNCHANGED <<input, lines, ret, sent, patchVars, sessionVars, reviewVars, extVars>>

\* parseStructuredResponse: after the last line, the record in progress
ParseFinish ==
  /\ ppc = "loop"
  /\ pos > Len(lines)
  /\ ret' = [suggestions |-> flush(p), err |-> "nil"]
  /\ ppc' = "done"
  /\ UNCHANGED <<input, lines, pos, p, sent, patchVars, sessionVars, reviewVars, extVars>>

NoParse ==
  /\ input = [response |-> Empty, file |-> "f1"]
  /\ lines = <<>>
  /\ pos = 0
  /\ p = ParserStart
  /\ ppc = "idle"
  /\ ret = NoReturn
  /\ sent = <<>>

---------------------------------------------------------------------------
(* Session Engine *)

\* NewReviewSession
NewReviewSession(suggestions) ==
  [suggestions |-> suggestions, current |-> 0, fixed |-> 0, skipped |-> 0,
   skippedMap |-> {}]

\* an outcome that forgets the counters
SessionOutcomeNoCounts(action, sess) ==
  <<[Action |-> action, Fixed |-> 0, Skipped |-> 0]>>

\* SessionOutcome{Action, Fixed: s.fixed, Skipped: s.skipped}
SessionOutcome(action, sess) ==
  <<[Action |-> action, Fixed |-> sess.fixed, Skipped |-> sess.skipped]>>

\* an empty session that aborts
emptyRunOutcomeAbort == <<[Action |-> "abort", Fixed |-> 0, Skipped |-> 0]>>

\* SessionOutcome{Action: ActionCommit}, returned when there is no suggestion
emptyRunOutcome == <<[Action |-> "commit", Fixed |-> 0, Skipped |-> 0]>>

\* the suggestion at s.current (Go indexes from 0)
CurrentSuggestion(sess) == sess.suggestions[sess.current + 1]

\* a session that stays where it is
advanceStay(sess) == sess

\* an index that moves on by two
advanceTwice(sess) == [sess EXCEPT !.current = @ + 2]

\* s.current++
advance(sess) == [sess EXCEPT !.current = @ + 1]

\* a fix counted twice
countFixedTwice(sess) == [sess EXCEPT !.fixed = @ + 2]

\* s.fixed++
countFixed(sess) == [sess EXCEPT !.fixed = @ + 1]

\* a skip counted twice
countSkippedTwice(sess) ==
  [sess EXCEPT !.skipped = @ + 2, !.skippedMap = @ \cup {sess.current}]

\* a skip that is counted but not marked
countSkippedUnmarked(sess) == [sess EXCEPT !.skipped = @ + 1]

\* s.skipped++; s.skippedMap[s.current] = true
countSkipped(sess) ==
  [sess EXCEPT !.skipped = @ + 1, !.skippedMap = @ \cup {sess.current}]

\* what the user can type at a prompt, without the line end
TypedLines ==
  { <<"f">>, <<"F", "I", "X">>, <<" ", "s">>, <<"s", "k", "i", "p">>,
    <<"v">>, <<"V", "i", "e", "w", " ">>, <<"q">>, <<"q", "u", "i", "t">>,
    <<"x">>, <<>>, <<"y">>, <<"Y", "e", "s">>, <<"n">>, <<"r">>,
    <<"r", "e", "-", "r", "e", "v", "i", "e", "w">> }

\* reader.ReadString('\n'): a line with its line end, or what was left before
\* the end of input with an error; after the end of input every read fails
Reads ==
  IF eof THEN {[data |-> <<>>, err |-> TRUE]}
  ELSE {[data |-> l \o <<"\n">>, err |-> FALSE] : l \in TypedLines}
       \cup {[data |-> l, err |-> TRUE] : l \in {<<>>, <<"y">>, <<"f">>}}

\* strings.TrimSpace(strings.ToLower(input))
Command(data) == TrimSpace(ToLower(data))

cmdFix == {<<"f">>, <<"f", "i", "x">>}
cmdSkipOrView == {<<"s">>, <<"s", "k", "i", "p">>, <<"v">>}
cmdSkip == {<<"s">>, <<"s", "k", "i", "p">>}
cmdView == {<<"v">>, <<"v", "i", "e", "w">>}
cmdQuit == {<<"q">>, <<"q", "u", "i", "t">>}
cmdYesShort == {<<"y">>}
cmdYes == {<<"y">>, <<"y", "e", "s">>}
cmdReReview == {<<"r">>, <<"r", "e", "-", "r", "e", "v", "i", "e", "w">>}

\* the outcomes of reading, writing and staging a file during a session; a
\* write that fails after the file was opened leaves it empty
SessionEnvs == {e \in Envs : e.written = 0}

Event(kind, ok) == [kind |-> kind, ok |-> ok]

\* Run: no suggestions, commit at once; otherwise enter the loop
RunStart ==
  /\ pc = "run"
  /\ IF Len(session.suggestions) = 0
     THEN /\ pc' = "done"
          /\ outcome' = emptyRunOutcome
     ELSE /\ pc' = "prompt"
          /\ outcome' = outcome
  /\ event' = Event("start", TRUE)
  /\ UNCHANGED <<session, eof, typed, patchVars, parseVars, reviewVars, extVars>>

\* a failed read that leaves the session where it is
onReadErrorStay(sess) == sess

\* if err != nil { s.current++; continue }
onReadError(sess) == advance(sess)

\* the prompt's read fails: the suggestion is passed over
ReadFailed ==
  /\ pc = "prompt"
  /\ session.current < Len(session.suggestions)
  /\ \E r \in Reads :
       /\ r.err
       /\ eof' = TRUE
       /\ typed' = <<r>>
  /\ session' = onReadError(session)
  /\ event' = Event("readerror", FALSE)
  /\ UNCHANGED <<pc, outcome, patchVars, parseVars, reviewVars, extVars>>

\* f / fix: apply the fix; on failure ask whether to skip
Fix ==
  /\ pc = "prompt"
  /\ session.current < Len(session.suggestions)
  /\ \E r \in Reads : ~r.err /\ Command(r.data) \in cmdFix /\ typed' = <<r>>
  /\ \E env \in SessionEnvs :
       LET a == applyFix(CurrentSuggestion(session), worktree, index, env)
       IN /\ worktree' = a.worktree
          /\ index' = a.index
          /\ last' = Applied(1, CurrentSuggestion(session), worktree, index, a)
          /\ IF a.ok
             THEN /\ session' = advance(countFixed(session))
                  /\ pc' = "prompt"
             ELSE /\ session' = session
                  /\ pc' = "confirm"
          /\ event' = Event("fix", a.ok)
  /\ UNCHANGED <<eof, outcome, parseVars, reviewVars, extVars>>

\* the answer to "Skip this suggestion? [y/n]"; a failed read is not looked at,
\* what was read is
ConfirmSkip ==
  /\ pc = "confirm"
  /\ \E r \in Reads :
       /\ eof' = (eof \/ r.err)
       /\ typed' = <<r>>
       /\ IF TrimSpace(ToLower(r.data)) = <<"y">>
          THEN /\ session' = advance(countSkipped(session))
               /\ event' = Event("confirm", TRUE)
          ELSE /\ session' = session
               /\ event' = Event("confirm", FALSE)
  /\ pc' = "prompt"
  /\ UNCHANGED <<outcome, patchVars, parseVars, reviewVars, extVars>>

\* s / skip
Skip ==
  /\ pc = "prompt"
  /\ session.current < Len(session.suggestions)
  /\ \E r \in Reads : ~r.err /\ Command(r.data) \in cmdSkip /\ typed' = <<r>>
  /\ session' = advance(countSkipped(session))
  /\ event' = Event("skip", TRUE)
  /\ UNCHANGED <<pc, eof, outcome, patchVars, parseVars, reviewVars, extVars>>

\* v / view: viewDiff prints the staged diff and changes nothing
View ==
  /\ pc = "prompt"
  /\ session.current < Len(session.suggestions)
  /\ \E r \in Reads : ~r.err /\ Command(r.data) \in cmdView /\ typed' = <<r>>
  /\ event' = Event("view", TRUE)
  /\ UNCHANGED <<session, pc, eof, outcome, patchVars, parseVars, reviewVars, extVars>>

\* q / quit
Quit ==
  /\ pc = "prompt"
  /\ session.current < Len(session.suggestions)
  /\ \E r \in Reads : ~r.err /\ Command(r.data) \in cmdQuit /\ typed' = <<r>>
  /\ outcome' = SessionOutcome("abort", session)
  /\ pc' = "done"
  /\ event' = Event("quit", TRUE)
  /\ UNCHANGED <<session, eof, patchVars, parseVars, reviewVars, extVars>>

\* any other input
Invalid ==
  /\ pc = "prompt"
  /\ session.current < Len(session.suggestions)
  /\ \E r \in Reads :
       /\ ~r.err
       /\ Command(r.data) \notin (cmdFix \cup cmdSkip \cup cmdView \cup cmdQuit)
       /\ typed' = <<r>>
  /\ event' = Event("invalid", FALSE)
  /\ UNCHANGED <<session, pc, eof, outcome, patchVars, parseVars, reviewVars, extVars>>

\* the loop is over: printSummary, then the commit prompt
Summary ==
  /\ pc = "prompt"
  /\ session.current >= Len(session.suggestions)
  /\ pc' = "decide"
  /\ event' = Event("summary", TRUE)
  /\ UNCHANGED <<session, eof, outcome, typed, patchVars, parseVars, reviewVars, extVars>>

\* the answer to "Proceed with commit?"; a failed read is not looked at
Decide ==
  /\ pc = "decide"
  /\ \E r \in Reads :
       /\ eof' = (eof \/ r.err)
       /\ typed' = <<r>>
       /\ LET c == TrimSpace(ToLower(r.data))
          IN outcome' = SessionOutcome(IF c \in cmdYes THEN "commit"
                                       ELSE IF c \in cmdReReview THEN "rereview"
                                       ELSE "abort", session)
  /\ pc' = "done"
  /\ event' = Event("decide", TRUE)
  /\ UNCHANGED <<session, patchVars, parseVars, reviewVars, extVars>>

NoSession ==
  /\ session = NewReviewSession(<<>>)
  /\ pc = "idle"
  /\ eof = FALSE
  /\ outcome = <<>>
  /\ event = Event("none", FALSE)
  /\ typed = <<>>

---------------------------------------------------------------------------
(* Review Orchestrator *)

\* the loop of parseStructuredResponse over the lines of a reply
RECURSIVE parseLines(_, _, _)
parseLines(q, ls, file) ==
  IF ls = <<>> \/ q.panicked THEN q
  ELSE parseLines(parseLine(q, Head(ls), file), Tail(ls), file)

\* parseReviewResponse as a function of the reply and the file
parseReviewResponse(response, file) ==
  IF response = NO_ISSUES \/ response = Empty
  THEN [suggestions |-> <<>>, err |-> "nil", panicked |-> FALSE]
  ELSE LET q == parseLines(ParserStart, splitLines(response), file)
       IN [suggestions |-> flush(q), err |-> "nil", panicked |-> q.panicked]

\* the lines of a reply that reports one record per title, in the format of
\* the prompt: ---, LINE: 7, TITLE: <title>
RECURSIVE recordLines(_)
recordLines(titles) ==
  IF titles = <<>> THEN <<>>
  ELSE <<kSep, pLINE \o <<" ", "7">>, pTITLE \o <<" ">> \o Head(titles)>>
       \o recordLines(Tail(titles))

\* the reply of the assistant: NO_ISSUES when it has nothing to report
ReplyOf(titles) ==
  IF titles = <<>> THEN NO_ISSUES ELSE joinLines(recordLines(titles) \o <<kSep>>)

\* client.Chat as reviewFile sees it: the complete reply, or an error
Chat(answer) ==
  IF answer.fails THEN [response |-> Empty, err |-> "error"]
  ELSE [response |-> ReplyOf(answer.titles), err |-> "nil"]

\* reviewFile: one Chat call, then the parse of its reply
reviewFile(change, answer) ==
  LET c == Chat(answer)
  IN IF c.err # "nil" THEN [suggestions |-> <<>>, err |-> c.err, panicked |-> FALSE]
     ELSE parseReviewResponse(c.response, change.Path)

\* result := &ReviewResult{Files: make([]string, 0, len(changes))}
NewReviewResult == [Files |-> <<>>, Suggestions |-> <<>>]

\* a loop that does not record the path of a change
appendFileNever(res, path) == res

\* result.Files = append(result.Files, change.Path)
appendFile(res, path) == [res EXCEPT !.Files = Append(@, path)]

\* new suggestions put before the ones already found
prependSuggestions(res, sugs) == [res EXCEPT !.Suggestions = sugs \o @]

\* result.Suggestions = append(result.Suggestions, suggestions...)
appendSuggestions(res, sugs) == [res EXCEPT !.Suggestions = @ \o sugs]

\* a failed call that throws away what was found so far
onChatErrorDropsAll(res) == [res EXCEPT !.Suggestions = <<>>]

\* the error of reviewFile is printed and the loop continues
onChatError(res) == res

\* a loop that asks the assistant about binary files too
needsReviewAlways(change) == TRUE

\* if change.IsBinary { continue }
needsReview(change) == ~change.IsBinary

\* a request to the assistant: which change it was built from
Request(k) == [index |-> k, path |-> changes[k].Path]

\* Review: the result is created, the loop begins
ReviewBegin ==
  /\ rpc = "start"
  /\ result' = NewReviewResult
  /\ ri' = 1
  /\ rpc' = "loop"
  /\ UNCHANGED <<changes, assistant, calls, rret, patchVars, parseVars, sessionVars, extVars>>

\* a binary change: its path is recorded, nothing else
ReviewBinary ==
  /\ rpc = "loop"
  /\ ri <= Len(changes)
  /\ ~needsReview(changes[ri])
  /\ result' = appendFile(result, changes[ri].Path)
  /\ ri' = ri + 1
  /\ UNCHANGED <<changes, assistant, rpc, calls, rret, patchVars, parseVars, sessionVars, extVars>>

\* a change whose assistant call fails
ReviewFailed ==
  /\ rpc = "loop"
  /\ ri <= Len(changes)
  /\ needsReview(changes[ri])
  /\ reviewFile(changes[ri], assistant[ri]).err # "nil"
  /\ calls' = Append(calls, Request(ri))
  /\ result' = onChatError(appendFile(result, changes[ri].Path))
  /\ ri' = ri + 1
  /\ UNCHANGED <<changes, assistant, rpc, rret, patchVars, parseVars, sessionVars, extVars>>

\* a change whose assistant call returns a reply
ReviewReplied ==
  /\ rpc = "loop"
  /\ ri <= Len(changes)
  /\ needsReview(changes[ri])
  /\ LET r == reviewFile(changes[ri], assistant[ri])
     IN /\ r.err = "nil"
        /\ result' = appendSuggestions(appendFile(result, changes[ri].Path),
                                       r.suggestions)
        /\ rpc' = IF r.panicked THEN "panic" ELSE "loop"
  /\ calls' = Append(calls, Request(ri))
  /\ ri' = ri + 1
  /\ UNCHANGED <<changes, assistant, rret, patchVars, parseVars, sessionVars, extVars>>

\* return result, nil
ReviewReturn ==
  /\ rpc = "loop"
  /\ ri > Len(changes)
  /\ rret' = <<[result |-> result, err |-> "nil"]>>
  /\ rpc' = "done"
  /\ UNCHANGED <<changes, assistant, result, ri, calls, patchVars, parseVars, sessionVars, extVars>>

NoReview ==
  /\ changes = <<>>
  /\ assistant = <<>>
  /\ result = NewReviewResult
  /\ ri = 0
  /\ rpc = "idle"
  /\ calls = <<>>
  /\ rret = <<>>

NoFilter ==
  /\ allChanges = <<>>
  /\ ignorePatterns = <<>>
  /\ maxFileSize = 0
  /\ filteredChanges = <<>>
  /\ refiltered = <<>>
  /\ fpc = "idle"

NoChat ==
  /\ mu = "unlocked"
  /\ chat = <<>>
  /\ started = <<>>
  /\ returned = <<>>
  /\ crashed = FALSE

NoRun ==
  /\ config = [strict |-> FALSE, hook |-> FALSE, output_markdown |-> FALSE]
  /\ runpc = "idle"
  /\ found = -1
  /\ exitCode = <<>>

NoExt == NoFilter /\ NoChat /\ NoRun

---------------------------------------------------------------------------
(* The Patch Applier on its own: one call on any file content and snippets *)

CodeChars == {"a", "b"}
Contents == StrUpTo(CodeChars, MaxContentLen)
Snippets == StrUpTo(CodeChars, MaxSnippetLen) \cup {NA}

PatchSuggestions ==
  {[NewSuggestion(f) EXCEPT !.OriginalCode = o, !.SuggestFix = x] :
     f \in Files, o \in Snippets, x \in Snippets}

InitPatch ==
  /\ \E c \in Contents : worktree = [f \in Files |-> IF f = "f1" THEN c ELSE <<"a", "b">>]
  /\ index = worktree
  /\ last = NoCall
  /\ NoParse
  /\ NoSession
  /\ NoReview
  /\ NoExt

ApplyFixCall ==
  /\ last.n = 0
  /\ \E sug \in PatchSuggestions, env \in Envs :
       LET r == applyFix(sug, worktree, index, env)
       IN /\ worktree' = r.worktree
          /\ index' = r.index
          /\ last' = Applied(1, sug, worktree, index, r)
  /\ UNCHANGED <<parseVars, sessionVars, reviewVars, extVars>>

NextPatch == ApplyFixCall

SpecPatch == InitPatch /\ [][NextPatch]_vars

---------------------------------------------------------------------------
(* The Response Parser on any reply of up to MaxLines lines *)

\* lines a reply is made of: the delimiters, field lines with well-formed,
\* blank and unparsable values, and a line of code
lnTitle == pTITLE \o <<" ", "t">>
lnBlankTitle == pTITLE \o <<" ">>
lnLine7 == pLINE \o <<" ", "7">>
lnLineX == pLINE \o <<" ", "x">>
lnEndPlus == pEND_LINE \o <<" ", "+">>
lnFixNA == pFIX \o <<" ", "N", "/", "A">>
lnCode == <<"a">>

ReplyLines ==
  { kSep, kOpen, kClose, lnTitle, lnBlankTitle, lnLine7, lnLineX, lnEndPlus,
    pORIGINAL, lnFixNA, lnCode }

Replies == {joinLines(ls) : ls \in StrUpTo(ReplyLines, MaxLines)} \cup {NO_ISSUES}

NoPatch ==
  /\ worktree = [f \in Files |-> Empty]
  /\ index = worktree
  /\ last = NoCall

InitParse ==
  /\ \E r \in Replies : input = [response |-> r, file |-> "f1"]
  /\ lines = <<>>
  /\ pos = 0
  /\ p = ParserStart
  /\ ppc = "start"
  /\ ret = NoReturn
  /\ sent = <<>>
  /\ NoPatch
  /\ NoSession
  /\ NoReview
  /\ NoExt

NextParse == ParseBegin \/ ParseLine \/ ParseFinish

SpecParse == InitParse /\ [][NextParse]_vars

---------------------------------------------------------------------------
(* Round trip: a record written in the format the prompt prescribes, parsed *)

\* a decimal numeral
RECURSIVE Decimal(_)
Decimal(n) ==
  IF n < 10 THEN <<Digits[n + 1]>>
  ELSE Decimal(n \div 10) \o <<Digits[(n % 10) + 1]>>

Itoa(n) == IF n < 0 THEN <<"-">> \o Decimal(-n) ELSE Decimal(n)

\* the record format of buildReviewPrompt; closed tells whether the closing
\* --- line of the format is there
Serialise(rec, closed) ==
  joinLines(
    << kSep,
       pLINE \o <<" ">> \o Itoa(rec.Line),
       pEND_LINE \o <<" ">> \o Itoa(rec.EndLine),
       pSEVERITY \o <<" ">> \o rec.Severity,
       pCONFIDENCE \o <<" ">> \o rec.Confidence,
       pCATEGORY \o <<" ">> \o rec.Category,
       pTITLE \o <<" ">> \o rec.Title,
       pDESCRIPTION \o <<" ">> \o rec.Description,
       pORIGINAL, kOpen >>
    \o splitLines(rec.OriginalCode)
    \o << kClose, pFIX, kOpen >>
    \o splitLines(rec.SuggestFix)
    \o << kClose >>
    \o (IF closed THEN << kSep >> ELSE << >>))

ValueChars == {"t", " ", "\n"}
Values == StrUpTo(ValueChars, MaxValueLen)

BlockLines == { <<"a">>, <<>>, <<" ", "a">>, kSep }
Blocks == {joinLines(ls) : ls \in StrUpTo(BlockLines, MaxBlockLines)}

RoundTripRecords ==
  {[File |-> f, Line |-> l, EndLine |-> 12,
    Severity |-> <<"w", "a", "r", "n", "i", "n", "g">>,
    Confidence |-> <<"m", "e", "d", "i", "u", "m">>,
    Category |-> <<"b", "u", "g">>,
    Title |-> t, Description |-> d, OriginalCode |-> o,
    SuggestFix |-> <<"b", "\n", " ", "b">>] :
     f \in Files, l \in {-1, 10}, t \in Values \ {Empty},
     d \in {<<"d">>, <<" ", "d">>}, o \in Blocks}

InitRoundTrip ==
  /\ \E rec \in RoundTripRecords, closed \in BOOLEAN :
       /\ sent = <<rec>>
       /\ input = [response |-> Serialise(rec, closed), file |-> rec.File]
  /\ lines = <<>>
  /\ pos = 0
  /\ p = ParserStart
  /\ ppc = "start"
  /\ ret = NoReturn
  /\ NoPatch
  /\ NoSession
  /\ NoReview
  /\ NoExt

SpecRoundTrip == InitRoundTrip /\ [][NextParse]_vars

---------------------------------------------------------------------------
(* A review session over up to MaxSuggestions suggestions for two files *)

Sug(file, original, fix) ==
  [NewSuggestion(file) EXCEPT !.Title = <<"t">>, !.OriginalCode = original,
                              !.SuggestFix = fix]

SessionSuggestions ==
  { Sug("f1", <<"a">>, <<"b">>),
    Sug("f1", <<"b", "b">>, <<"a">>),
    Sug("f2", <<"a">>, NA),
    Sug("f2", <<"b">>, <<"a", "a">>) }

Init ==
  /\ worktree = [f \in Files |-> IF f = "f1" THEN <<"a", "b", "a">> ELSE <<"a", "b">>]
  /\ index = worktree
  /\ last = NoCall
  /\ NoParse
  /\ \E l \in StrUpTo(SessionSuggestions, MaxSuggestions) : session = NewReviewSession(l)
  /\ pc = "run"
  /\ eof = FALSE
  /\ outcome = <<>>
  /\ event = Event("none", FALSE)
  /\ typed = <<>>
  /\ NoReview
  /\ NoExt

Next ==
  \/ RunStart
  \/ ReadFailed
  \/ Fix
  \/ ConfirmSkip
  \/ Skip
  \/ View
  \/ Quit
  \/ Invalid
  \/ Summary
  \/ Decide

Spec == Init /\ [][Next]_vars

---------------------------------------------------------------------------
(* A review run over up to MaxChanges changes *)

ReviewChanges == [Path : Files, IsBinary : BOOLEAN]

\* what the assistant reports for a file: nothing, one record, two records, a
\* record without a title followed by one with a title
TitleLists == { <<>>, << <<"t">> >>, << <<"t">>, <<"u">> >>, << Empty, <<"u">> >> }

ReviewAnswers == [fails : BOOLEAN, titles : TitleLists]

InitReview ==
  /\ changes \in StrUpTo(ReviewChanges, MaxChanges)
  /\ assistant \in [1..Len(changes) -> ReviewAnswers]
  /\ result = NewReviewResult
  /\ ri = 0
  /\ rpc = "start"
  /\ calls = <<>>
  /\ rret = <<>>
  /\ NoPatch
  /\ NoParse
  /\ NoSession
  /\ NoExt

NextReview ==
  \/ ReviewBegin
  \/ ReviewBinary
  \/ ReviewFailed
  \/ ReviewReplied
  \/ ReviewReturn

SpecReview == InitReview /\ [][NextReview]_vars

---------------------------------------------------------------------------
(* Properties of the Patch Applier *)

\* the file the last applyFix call was aimed at, before and after the call
TargetBefore == last.before[last.sug.File]
TargetAfter == worktree[last.sug.File]

\* offsets at which old occurs in s (overlapping occurrences included)
Occurrences(str, old) ==
  {k \in 0..(Len(str) - Len(old)) : Slice(str, k, k + Len(old)) = old}

\* t is s with the occurrence of old at the least offset replaced by new
FirstOccurrenceReplaced(str, old, new, t) ==
  \E k \in Occurrences(str, old) :
    /\ \A j \in Occurrences(str, old) : k <= j
    /\ Len(t) = Len(str) - Len(old) + Len(new)
    /\ \A i \in 1..k : t[i] = str[i]
    /\ \A i \in 1..Len(new) : t[k + i] = new[i]
    /\ \A i \in 1..(Len(str) - k - Len(old)) : t[k + Len(new) + i] = str[k + Len(old) + i]

\* C1: when the original snippet does not occur in the file, or replacing its
\* first occurrence by the fix would leave the content identical, applyFix
\* reports failure, attempts no write and no staging, and the working tree
\* and the staging area are as before the call.
C1_NoMatchOrNoOpFails ==
  (/\ last.n > 0
   /\ \/ Occurrences(TargetBefore, last.sug.OriginalCode) = {}
      \/ FirstOccurrenceReplaced(TargetBefore, last.sug.OriginalCode,
                                 last.sug.SuggestFix, TargetBefore))
  => /\ ~last.ok
     /\ ~last.wrote
     /\ ~last.staged
     /\ worktree = last.before
     /\ index = last.indexBefore

\* C1 witness: a call whose fix equals an original snippet that is in the file
C1_Witness ==
  /\ last.n > 0
  /\ last.sug.OriginalCode = <<"a">>
  /\ last.sug.SuggestFix = <<"a">>
  /\ TargetBefore = <<"b", "a">>
  /\ ~last.ok

\* C2: when applyFix succeeds, the file holds the old content with exactly the
\* first occurrence of the original snippet replaced by the fix; everything
\* before and after it, later occurrences included, is as it was, and no other
\* file changed.
C2_SuccessReplacesFirstOccurrence ==
  (last.n > 0 /\ last.ok)
  => /\ FirstOccurrenceReplaced(TargetBefore, last.sug.OriginalCode,
                                last.sug.SuggestFix, TargetAfter)
     /\ \A f \in Files \ {last.sug.File} : worktree[f] = last.before[f]

\* C2 witness: a successful fix of a snippet that occurs more than once
C2_Witness ==
  /\ last.n > 0 /\ last.ok
  /\ TargetBefore = <<"a", "b", "a">>
  /\ last.sug.OriginalCode = <<"a">>
  /\ last.sug.SuggestFix = <<"b", "b">>
  /\ TargetAfter = <<"b", "b", "b", "a">>

\* C3 (as claimed): a file is modified by a successful fix only when the
\* original snippet occurs at exactly one offset of the file.
C3_OnlyUniqueMatchIsPatched ==
  (last.n > 0 /\ last.ok /\ TargetAfter # TargetBefore)
  => Cardinality(Occurrences(TargetBefore, last.sug.OriginalCode)) = 1

\* C4 (as claimed): whenever applyFix returns failure, the target file's content
\* is what it was before the call.
C4_FailureLeavesFileUnchanged ==
  (last.n > 0 /\ ~last.ok) => TargetAfter = TargetBefore

---------------------------------------------------------------------------
(* Properties of the Response Parser *)

\* C5: for every reply the parser runs to its end and returns a suggestion
\* list with a nil error; it never dereferences a missing current record (no
\* crash state), and until it has returned it is at a line of the reply or at
\* the reply's end, where its next step is defined.
C5_ParserTotal ==
  /\ ppc \in {"start", "loop", "done"}
  /\ ~p.panicked
  /\ ppc = "done" => ret.err = "nil"
  /\ ppc = "loop" => pos \in 1..(Len(lines) + 1)

\* C5 witness: a reply with >>> and <<< before any --- and a block left open
C5_Witness ==
  /\ ppc = "done"
  /\ lines = <<kClose, kOpen, kSep, kOpen>>
  /\ ret.suggestions = <<>>

\* C6: every suggestion the parser holds or returns has a title that is not
\* empty (titles are trimmed, so not blank either): a record whose title is
\* missing or empty when it is flushed is not in the output.
C6_EmittedTitlesNonEmpty ==
  \A out \in {p.suggestions, ret.suggestions} :
    \A i \in 1..Len(out) :
      /\ out[i].Title # Empty
      /\ TrimSpace(out[i].Title) = out[i].Title

\* C6 witness: two records with no title and a blank title are dropped, a titled
\* record between them is returned
C6_Witness ==
  /\ ppc = "done"
  /\ lines = <<kSep, lnBlankTitle, kSep, lnTitle>>
  /\ Len(ret.suggestions) = 1
  /\ ret.suggestions[1].Title = <<"t">>

\* the reply has no line equal to ---
NoSeparatorLine ==
  \A i \in 1..Len(splitLines(input.response)) : splitLines(input.response)[i] # kSep

\* C8: the NO_ISSUES sentinel, the empty reply and any reply with no line equal
\* to --- yield zero suggestions and a nil error.
C8_NoSeparatorNoSuggestions ==
  (/\ ppc = "done"
   /\ \/ input.response = NO_ISSUES
      \/ input.response = Empty
      \/ NoSeparatorLine)
  => ret.suggestions = <<>> /\ ret.err = "nil"

\* C8 witness: a reply of field lines and a block but no --- line has been parsed
C8_Witness ==
  /\ ppc = "done"
  /\ lines = <<lnTitle, pORIGINAL, kOpen, lnCode>>
  /\ ret.suggestions = <<>>

\* the value of an integer field line is no optionally signed run of digits
WellFormedInt(v) ==
  LET body == IF v # <<>> /\ v[1] \in {"+", "-"} THEN Tail(v) ELSE v
  IN body # <<>> /\ \A i \in 1..Len(body) : body[i] \in {Digits[d] : d \in 1..10}

UnparsableInt(line, prefix) ==
  /\ hasPrefix(line, prefix)
  /\ ~WellFormedInt(TrimSpace(SubSeq(line, Len(prefix) + 1, Len(line))))

\* C9: a LINE or END_LINE line of a record whose value is not an integer sets
\* that field to 0 and changes nothing else: the parse goes on, the record's
\* other fields and the suggestions found so far are as they were.
C9_UnparsableIntIsZero ==
  [][(ppc = "loop" /\ pos <= Len(lines) /\ ~p.inMultiLine /\ p.current # <<>>)
     => /\ UnparsableInt(lines[pos], pLINE)
           => ppc' = "loop" /\ p' = [p EXCEPT !.current[1].Line = 0]
        /\ UnparsableInt(lines[pos], pEND_LINE)
           => ppc' = "loop" /\ p' = [p EXCEPT !.current[1].EndLine = 0]]_vars

\* C9 witness: a record whose LINE was 7 and then unparsable is returned with
\* Line 0 and its title
C9_Witness ==
  /\ ppc = "done"
  /\ lines = <<kSep, lnLine7, lnLineX, lnTitle>>
  /\ ret.suggestions = <<[NewSuggestion("f1") EXCEPT !.Title = <<"t">>]>>

\* a field value the one-line format can carry: no line break in it and no
\* white space around it
OneLineTrimmed(v) ==
  /\ \A i \in 1..Len(v) : v[i] # "\n"
  /\ v = <<>> \/ (~IsSpace(v[1]) /\ ~IsSpace(v[Len(v)]))

\* C7 (as claimed): a record with a non-empty title, written in the protocol
\* format with its ORIGINAL and FIX as blocks, parses to exactly that record.
C7_RoundTripAnyValues ==
  (ppc = "done" /\ sent # <<>>) => ret.suggestions = sent

\* C7 (amended): the same, for records whose one-line field values hold no
\* line break and no leading or trailing white space.
C7_RoundTrip ==
  (/\ ppc = "done"
   /\ sent # <<>>
   /\ OneLineTrimmed(sent[1].Title)
   /\ OneLineTrimmed(sent[1].Description))
  => /\ ret.suggestions = sent
     /\ ret.suggestions[1].File = input.file
     /\ ret.err = "nil"

\* C7 witness: a record whose ORIGINAL block holds an indented line and a --- line
\* came back whole, for the file that is not the model's default
C7_Witness ==
  /\ ppc = "done"
  /\ sent # <<>>
  /\ sent[1].Title = <<"t", "t">>
  /\ sent[1].Line = -1
  /\ sent[1].OriginalCode = <<" ", "a", "\n", "-", "-", "-">>
  /\ input.file = "f2"
  /\ ret.suggestions = sent

---------------------------------------------------------------------------
(* Properties of the Session Engine *)

\* C10: when fix is entered at presenting(i), i < N, and the Patch Applier
\* succeeds, fixed grows by exactly 1, skipped and the skipped set stay, and
\* the session is at presenting(i+1).
C10_FixSuccessTransition ==
  [][(event'.kind = "fix" /\ event'.ok)
     => /\ pc = "prompt" /\ session.current < Len(session.suggestions)
        /\ session'.fixed = session.fixed + 1
        /\ session'.skipped = session.skipped
        /\ session'.skippedMap = session.skippedMap
        /\ session'.current = session.current + 1
        /\ session'.suggestions = session.suggestions
        /\ pc' = "prompt"
        /\ last'.ok /\ last'.sug = CurrentSuggestion(session)]_vars

\* C10 witness: the second of two suggestions has just been fixed after the first
C10_Witness ==
  /\ event.kind = "fix" /\ event.ok
  /\ pc = "prompt"
  /\ session.current = 2
  /\ session.fixed = 2
  /\ session.skipped = 0


\* the command a read holds: what was read, lower-cased, without the white
\* space around it
Typed(read) == TrimSpace(ToLower(read[1].data))

\* a whole line was read at the prompt of suggestion i, i < N
LineReadAtPrompt ==
  /\ pc = "prompt"
  /\ session.current < Len(session.suggestions)
  /\ typed' # <<>>
  /\ ~typed'[1].err

FilesUnchanged == worktree' = worktree /\ index' = index

\* C11: when fix is entered and the Patch Applier fails, the session asks for
\* a confirmation with its state unchanged; the answer y increases skipped by
\* exactly 1, leaves fixed and moves to presenting(i+1); any other answer, no
\* answer included, leaves index, fixed and skipped and presents the same
\* suggestion again.
C11_FixFailureTransition ==
  [][/\ (LineReadAtPrompt /\ Typed(typed') \in {<<"f">>, <<"f", "i", "x">>} /\ ~last'.ok)
        => /\ pc' = "confirm"
           /\ session' = session
           /\ last'.sug = CurrentSuggestion(session)
     /\ pc = "confirm"
        => /\ session.current < Len(session.suggestions)
           /\ ~last.ok
           /\ pc' = "prompt"
           /\ typed' # <<>>
           /\ session'.fixed = session.fixed
           /\ session'.suggestions = session.suggestions
           /\ IF Typed(typed') = <<"y">>
              THEN /\ session'.skipped = session.skipped + 1
                   /\ session'.current = session.current + 1
              ELSE /\ session'.skipped = session.skipped
                   /\ session'.current = session.current
                   /\ session' = session]_vars

\* C11 witness: after one fix, the fix of the second suggestion failed and the
\* skip was confirmed
C11_Witness ==
  /\ event.kind = "confirm" /\ event.ok
  /\ ~last.ok
  /\ pc = "prompt"
  /\ session.current = 2
  /\ session.fixed = 1
  /\ session.skipped = 1

\* C12: s or skip at presenting(i), i < N, increases skipped by exactly 1,
\* leaves fixed, writes and stages no file, and moves to presenting(i+1).
C12_SkipTransition ==
  [][(LineReadAtPrompt /\ Typed(typed') \in {<<"s">>, <<"s", "k", "i", "p">>})
     => /\ session'.skipped = session.skipped + 1
        /\ session'.fixed = session.fixed
        /\ session'.current = session.current + 1
        /\ session'.suggestions = session.suggestions
        /\ pc' = "prompt"
        /\ FilesUnchanged
        /\ last' = last]_vars

\* C12 witness: two suggestions skipped one after the other
C12_Witness ==
  /\ event.kind = "skip"
  /\ pc = "prompt"
  /\ session.current = 2
  /\ session.skipped = 2
  /\ session.fixed = 0
  /\ last.n = 0

\* C13: q or quit at presenting(i), i < N, whatever came before, ends the
\* session at once with the outcome abort and the counters as they are; once
\* the session has ended nothing more happens, so no suggestion and no commit
\* prompt follows.
C13_QuitTerminates ==
  [][/\ pc # "done"
     /\ (LineReadAtPrompt /\ Typed(typed') \in {<<"q">>, <<"q", "u", "i", "t">>})
        => /\ pc' = "done"
           /\ outcome' = <<[Action |-> "abort", Fixed |-> session.fixed,
                            Skipped |-> session.skipped]>>
           /\ session' = session
           /\ FilesUnchanged]_vars

\* C13 witness: quit at the second suggestion after the first was fixed
C13_Witness ==
  /\ event.kind = "quit"
  /\ pc = "done"
  /\ session.current = 1
  /\ Len(session.suggestions) = 2
  /\ outcome = <<[Action |-> "abort", Fixed |-> 1, Skipped |-> 0]>>

\* C14: the commit prompt is reached only when all N suggestions have been
\* passed; there the outcome is commit for y or yes, re-review for r or
\* re-review, and abort for every other answer and for no input, each time with
\* the final counters.
C14_FinalDecision ==
  [][pc = "decide"
     => /\ session.current >= Len(session.suggestions)
        /\ pc' = "done"
        /\ session' = session
        /\ typed' # <<>>
        /\ outcome' =
             <<[Action |-> IF Typed(typed') \in {<<"y">>, <<"y", "e", "s">>}
                           THEN "commit"
                           ELSE IF Typed(typed') \in
                                     {<<"r">>, <<"r", "e", "-", "r", "e", "v", "i", "e", "w">>}
                           THEN "rereview"
                           ELSE "abort",
                Fixed |-> session.fixed, Skipped |-> session.skipped]>>]_vars

\* C14 witness: one fix and one skip, then Yes at the commit prompt
C14_Witness ==
  /\ pc = "done"
  /\ event.kind = "decide"
  /\ typed = <<[data |-> <<"Y", "e", "s", "\n">>, err |-> FALSE]>>
  /\ outcome = <<[Action |-> "commit", Fixed |-> 1, Skipped |-> 1]>>

\* C15: a session with no suggestion ends in its first step with the outcome
\* commit, Fixed = 0 and Skipped = 0, and has read nothing.
C15_EmptySessionCommits ==
  (Len(session.suggestions) = 0 /\ pc \notin {"idle", "run"})
  => /\ pc = "done"
     /\ outcome = <<[Action |-> "commit", Fixed |-> 0, Skipped |-> 0]>>
     /\ typed = <<>>
     /\ ~eof
     /\ event.kind = "start"

\* C15 witness: Run has returned for an empty suggestion list
C15_Witness ==
  /\ Len(session.suggestions) = 0
  /\ pc = "done"
  /\ outcome # <<>>

\* what was typed is neither fix, skip nor quit: view or any other input
ViewOrOther(read) ==
  Typed(read) \notin {<<"f">>, <<"f", "i", "x">>, <<"s">>, <<"s", "k", "i", "p">>,
                      <<"q">>, <<"q", "u", "i", "t">>}

\* C16 (as claimed): at presenting(i), view and any input other than fix, skip,
\* view and quit leave index, fixed, skipped and the files as they are, and
\* the same suggestion is presented again.
C16_AnyOtherInputChangesNothing ==
  [][(/\ pc = "prompt"
      /\ session.current < Len(session.suggestions)
      /\ typed' # <<>>
      /\ ViewOrOther(typed'))
     => /\ session' = session
        /\ pc' = "prompt"
        /\ FilesUnchanged]_vars

\* C16 (amended): the same for input that was read as a whole line; when the
\* read fails (the input ends before a line end), what was typed is not looked
\* at and the session moves to presenting(i+1) with fixed, skipped and the
\* files as they are.
C16_OtherLineChangesNothing ==
  [][/\ (LineReadAtPrompt /\ ViewOrOther(typed'))
        => /\ session' = session
           /\ pc' = "prompt"
           /\ FilesUnchanged
     /\ (/\ pc = "prompt"
         /\ session.current < Len(session.suggestions)
         /\ typed' # <<>>
         /\ typed'[1].err)
        => /\ session' = [session EXCEPT !.current = @ + 1]
           /\ pc' = "prompt"
           /\ FilesUnchanged]_vars

\* C16 witness: view was entered at the second suggestion after a fix changed
\* a file; index and counters are those the fix left
C16_Witness ==
  /\ event.kind = "view"
  /\ pc = "prompt"
  /\ session.current = 1
  /\ session.fixed = 1
  /\ worktree["f1"] = <<"b", "b", "a">>

\* C17: fixed grows only by 1, only on fix, and only when the Patch Applier
\* succeeded and the target file's content changed; and when fix leads from
\* presenting(i) to presenting(i+1), either that happened, or the applier had
\* failed, the skip was confirmed and skipped grew by 1.
C17_FixNeverSilentNoOp ==
  [][/\ session'.fixed # session.fixed
        => /\ session'.fixed = session.fixed + 1
           /\ LineReadAtPrompt /\ Typed(typed') \in {<<"f">>, <<"f", "i", "x">>}
           /\ last'.ok
           /\ worktree'[CurrentSuggestion(session).File]
                # worktree[CurrentSuggestion(session).File]
     /\ (/\ \/ LineReadAtPrompt /\ Typed(typed') \in {<<"f">>, <<"f", "i", "x">>}
            \/ pc = "confirm"
         /\ session'.current # session.current)
        => \/ /\ pc = "prompt"
              /\ last'.ok
              /\ session'.fixed = session.fixed + 1
              /\ session'.skipped = session.skipped
              /\ worktree'[CurrentSuggestion(session).File]
                   # worktree[CurrentSuggestion(session).File]
           \/ /\ pc = "confirm"
              /\ ~last.ok
              /\ last.sug = CurrentSuggestion(session)
              /\ Typed(typed') = <<"y">>
              /\ session'.skipped = session.skipped + 1
              /\ session'.fixed = session.fixed]_vars

\* C17 witness: the first suggestion was fixed and its file holds the fix
C17_Witness ==
  /\ event.kind = "fix" /\ event.ok
  /\ session.current = 1
  /\ session.fixed = 1
  /\ last.before["f1"] = <<"a", "b", "a">>
  /\ worktree["f1"] = <<"b", "b", "a">>


---------------------------------------------------------------------------
(* Properties of the Review Orchestrator *)

\* the call for the k-th change fails (a binary change has no call)
CallFails(k) == ~changes[k].IsBinary /\ assistant[k].fails

\* what the k-th change contributes when no call fails
UnfailedContribution(k) ==
  IF changes[k].IsBinary THEN <<>>
  ELSE parseReviewResponse(ReplyOf(assistant[k].titles), changes[k].Path).suggestions

\* the contributions of the first n changes, a failed call contributing nothing
RECURSIVE ContributionsUpTo(_)
ContributionsUpTo(n) ==
  IF n = 0 THEN <<>>
  ELSE ContributionsUpTo(n - 1)
       \o (IF CallFails(n) THEN <<>> ELSE UnfailedContribution(n))

\* C18: whatever the changes and whichever calls fail, Review does not crash
\* and returns its result with a nil error after the last change; a change
\* whose call fails contributes no suggestion, and every other change
\* contributes exactly what it contributes when no call fails.
C18_FailureIsolation ==
  /\ rpc \in {"start", "loop", "done"}
  /\ rpc = "loop" => ri \in 1..(Len(changes) + 1)
  /\ rpc \in {"loop", "done"} => result.Suggestions = ContributionsUpTo(ri - 1)
  /\ rpc = "done" => /\ ri = Len(changes) + 1
                     /\ rret = <<[result |-> result, err |-> "nil"]>>

\* C18 witness: the call for the first of two files failed, the second file's
\* two suggestions are in the result
C18_Witness ==
  /\ rpc = "done"
  /\ Len(changes) = 2
  /\ ~changes[1].IsBinary /\ assistant[1].fails /\ assistant[1].titles # <<>>
  /\ ~changes[2].IsBinary /\ ~assistant[2].fails
  /\ Len(rret[1].result.Suggestions) = 2
  /\ rret[1].err = "nil"

\* the requests for the non-binary changes among the first n, in list order
RECURSIVE NonBinaryRequests(_)
NonBinaryRequests(n) ==
  IF n = 0 THEN <<>>
  ELSE IF changes[n].IsBinary THEN NonBinaryRequests(n - 1)
  ELSE Append(NonBinaryRequests(n - 1), [index |-> n, path |-> changes[n].Path])

\* C19: a step of the loop at a binary change sends no request and adds no
\* suggestion; at a non-binary change it sends exactly one request, for that
\* change, whether the call fails or not; no other step sends a request; so
\* when Review returns, the requests are those of the non-binary changes, once
\* each, in list order.
C19_RequestDiscipline ==
  /\ [][IF rpc = "loop" /\ ri <= Len(changes)
        THEN /\ ri' = ri + 1
             /\ IF changes[ri].IsBinary
                THEN /\ calls' = calls
                     /\ result'.Suggestions = result.Suggestions
                ELSE calls' = Append(calls, [index |-> ri, path |-> changes[ri].Path])
        ELSE calls' = calls]_vars
  /\ [](rpc = "done" => calls = NonBinaryRequests(Len(changes)))

\* C19 witness: a binary file the assistant had suggestions for, then a file
\* whose call failed: one request, no suggestion
C19_Witness ==
  /\ rpc = "done"
  /\ Len(changes) = 2
  /\ changes[1].IsBinary /\ ~assistant[1].fails /\ assistant[1].titles # <<>>
  /\ ~changes[2].IsBinary /\ assistant[2].fails
  /\ calls = <<[index |-> 2, path |-> changes[2].Path]>>
  /\ result.Suggestions = <<>>

\* file and title of the records with a title, in the order of the reply
RECURSIVE TitledRecords(_, _)
TitledRecords(path, titles) ==
  IF titles = <<>> THEN <<>>
  ELSE (IF Head(titles) = Empty THEN <<>> ELSE << <<path, Head(titles)>> >>)
       \o TitledRecords(path, Tail(titles))

\* the records the assistant reported for the first n changes, file by file
RECURSIVE ReportedUpTo(_)
ReportedUpTo(n) ==
  IF n = 0 THEN <<>>
  ELSE ReportedUpTo(n - 1)
       \o (IF changes[n].IsBinary \/ assistant[n].fails THEN <<>>
           ELSE TitledRecords(changes[n].Path, assistant[n].titles))

\* C20: the suggestions in the result are the reported records in the order
\* of the replies, the files in the order of the change list; Files holds the
\* paths of the changes passed so far, and of all changes when Review returns,
\* in list order.
C20_SuggestionOrder ==
  /\ rpc \in {"loop", "done"}
     => /\ [k \in 1..Len(result.Suggestions) |->
              <<result.Suggestions[k].File, result.Suggestions[k].Title>>]
           = ReportedUpTo(ri - 1)
        /\ result.Files = [k \in 1..(ri - 1) |-> changes[k].Path]
  /\ rpc = "done"
     => rret[1].result.Files = [k \in 1..Len(changes) |-> changes[k].Path]

\* C20 witness: two records for f2 and then, after a record without a title,
\* one for f1
C20_Witness ==
  /\ rpc = "done"
  /\ Len(changes) = 2
  /\ changes[1].Path = "f2" /\ changes[2].Path = "f1"
  /\ [k \in 1..Len(result.Suggestions) |->
        <<result.Suggestions[k].File, result.Suggestions[k].Title>>]
     = << <<"f2", <<"t">> >>, <<"f2", <<"u">> >>, <<"f1", <<"u">> >> >>
  /\ result.Files = <<"f2", "f1">>

\* C21: during Review and after it, every suggestion in the result is for a
\* file that is in the result's Files.
C21_SuggestionFilesListed ==
  /\ \A k \in 1..Len(result.Suggestions) :
       \E j \in 1..Len(result.Files) : result.Files[j] = result.Suggestions[k].File
  /\ rpc = "done"
     => \A k \in 1..Len(rret[1].result.Suggestions) :
          \E j \in 1..Len(rret[1].result.Files) :
            rret[1].result.Files[j] = rret[1].result.Suggestions[k].File

\* C21 witness: in the middle of the loop the result holds the suggestions of
\* f2 only, and f2 is the one file listed
C21_Witness ==
  /\ rpc = "loop"
  /\ ri = 2
  /\ Len(changes) = 2
  /\ result.Files = <<"f2">>
  /\ Len(result.Suggestions) = 2
  /\ result.Suggestions[1].File = "f2"

---------------------------------------------------------------------------
(* The Change Filter of runReview: ignore patterns and the size limit *)

DefaultMaxFileSize == 100000

\* os.PathSeparator of the build the hook runs on
Separator == "/"

\* filepath.ToSlash: every separator becomes a slash
ToSlash(path) == [i \in 1..Len(path) |-> IF path[i] = Separator THEN "/" ELSE path[i]]

RECURSIVE Match(_, _)
\* filepath.Match for patterns made of literals, "*" and "?": "*" matches any
\* run of non-separator characters, "?" one non-separator character
Match(pattern, name) ==
  IF pattern = Empty THEN name = Empty
  ELSE IF Head(pattern) = "*"
    THEN \E k \in 0..Len(name) :
           /\ \A i \in 1..k : name[i] # Separator
           /\ Match(Tail(pattern), Slice(name, k, Len(name)))
  ELSE IF name = Empty THEN FALSE
  ELSE IF Head(pattern) = "?"
    THEN name[1] # Separator /\ Match(Tail(pattern), Tail(name))
  ELSE Head(pattern) = name[1] /\ Match(Tail(pattern), Tail(name))

\* strings.HasPrefix and strings.HasSuffix
HasPrefix(s, prefix) ==
  Len(s) >= Len(prefix) /\ SubSeq(s, 1, Len(prefix)) = prefix

HasSuffix(s, suffix) ==
  Len(s) >= Len(suffix) /\ SubSeq(s, Len(s) - Len(suffix) + 1, Len(s)) = suffix

RECURSIVE TrimTrailingSeparators(_)
TrimTrailingSeparators(path) ==
  IF path # Empty /\ path[Len(path)] = Separator
    THEN TrimTrailingSeparators(SubSeq(path, 1, Len(path) - 1))
    ELSE path

\* filepath.Base: the last element of the path, "." for an empty path and the
\* separator for a path made of separators only
Base(path) ==
  IF path = Empty THEN <<".">>
  ELSE LET t == TrimTrailingSeparators(path)
           seps == {i \in 1..Len(t) : t[i] = Separator}
           lastSep == IF seps = {} THEN 0 ELSE CHOOSE i \in seps : \A j \in seps : j <= i
       IN IF t = Empty THEN <<Separator>> ELSE Slice(t, lastSep, Len(t))

slashStar == <<"/", "*">>
starStar == <<"*", "*">>
starStarSlash == <<"*", "*", "/">>

\* the directory rule: dir is the first element of the path or an inner one
underDir(normalizedPath, dir) ==
  \/ HasPrefix(normalizedPath, dir \o <<"/">>)
  \/ Contains(normalizedPath, <<"/">> \o dir \o <<"/">>)

\* the "**/" rule of shouldIgnoreFile
matchesRecursive(normalizedPattern, normalizedPath, baseName) ==
  /\ Contains(normalizedPattern, starStar)
  /\ HasPrefix(normalizedPattern, starStarSlash)
  /\ LET suffix == Slice(normalizedPattern, 3, Len(normalizedPattern))
     IN IF HasSuffix(suffix, slashStar)
          THEN underDir(normalizedPath, Slice(suffix, 0, Len(suffix) - 2))
          ELSE Match(suffix, baseName)

\* a loop body that does not try the pattern on the base name
matchesBaseNameNever(normalizedPattern, baseName) == FALSE

\* the basename rule of shouldIgnoreFile
matchesBaseName(normalizedPattern, baseName) == Match(normalizedPattern, baseName)

\* one iteration of the loop of shouldIgnoreFile: the pattern makes it return true
ignoredBy(pattern, filePath) ==
  LET normalizedPath == ToSlash(filePath)
      baseName == Base(filePath)
      normalizedPattern == ToSlash(pattern)
  IN \/ Match(normalizedPattern, normalizedPath)
     \/ matchesBaseName(normalizedPattern, baseName)
     \/ /\ HasSuffix(normalizedPattern, slashStar)
        /\ underDir(normalizedPath, Slice(normalizedPattern, 0, Len(normalizedPattern) - 2))
     \/ matchesRecursive(normalizedPattern, normalizedPath, baseName)

\* shouldIgnoreFile: true at the first pattern that has a rule matching the path
shouldIgnoreFile(filePath, patterns) ==
  \E i \in 1..Len(patterns) : ignoredBy(patterns[i], filePath)

\* maxFileSize as runReview uses it: a configured 0 reads as the default
effectiveMaxFileSize(configured) ==
  IF configured = 0 THEN DefaultMaxFileSize ELSE configured

RECURSIVE filterLoop(_, _, _)
\* the loop over the changes: an ignored or too large file is passed over,
\* any other is appended to filteredChanges
filterLoop(cs, patterns, max) ==
  IF cs = <<>> THEN <<>>
  ELSE LET change == Head(cs)
           rest == filterLoop(Tail(cs), patterns, max)
       IN IF shouldIgnoreFile(change.Path, patterns) THEN rest
          ELSE IF change.ContentLen > max THEN rest
          ELSE <<change>> \o rest

\* a filter whose loop starts at the second change
filterChangesFromSecond(cs, patterns, configured) ==
  filterLoop(IF cs = <<>> THEN <<>> ELSE Tail(cs), patterns, effectiveMaxFileSize(configured))

\* the Change Filter of runReview
filterChanges(cs, patterns, configured) ==
  filterLoop(cs, patterns, effectiveMaxFileSize(configured))

\* runReview filters the staged changes
FilterChanges ==
  /\ fpc = "start"
  /\ filteredChanges' = filterChanges(allChanges, ignorePatterns, maxFileSize)
  /\ fpc' = "filtered"
  /\ UNCHANGED <<allChanges, ignorePatterns, maxFileSize, refiltered>>
  /\ UNCHANGED <<patchVars, parseVars, sessionVars, reviewVars, chatVars, runVars>>

\* the filter, with the same configuration, on what it kept
FilterAgain ==
  /\ fpc = "filtered"
  /\ refiltered' = filterChanges(filteredChanges, ignorePatterns, maxFileSize)
  /\ fpc' = "refiltered"
  /\ UNCHANGED <<allChanges, ignorePatterns, maxFileSize, filteredChanges>>
  /\ UNCHANGED <<patchVars, parseVars, sessionVars, reviewVars, chatVars, runVars>>

---------------------------------------------------------------------------
(* The Change Filter on its own: any changes, patterns and size limit *)

FilterPaths ==
  { <<"a">>, <<"b">>, <<"a", "b">>, <<"a", "/", "b">>, <<"b", "/", "a">>,
    <<"b", "/", "a", "/", "b">> }

ContentLens == {1, DefaultMaxFileSize + 1}

FilterFileChanges == [Path : FilterPaths, ContentLen : ContentLens]

Patterns ==
  { <<"a">>, <<"*">>, <<"?">>, <<"*", "b">>, <<"a", "/", "b">>, <<"a", "/", "*">>,
    <<"*", "*", "/", "a">>, <<"*", "*", "/", "a", "/", "*">> }

PatternLists ==
  {<<>>} \cup {<<x>> : x \in Patterns}
         \cup {<<<<"a", "/", "*">>, <<"*", "b">>>>, <<<<"?">>, <<"*", "*", "/", "a">>>>}

MaxFileSizes == {0, 1, DefaultMaxFileSize}

InitFilter ==
  /\ allChanges \in StrUpTo(FilterFileChanges, MaxChanges)
  /\ ignorePatterns \in PatternLists
  /\ maxFileSize \in MaxFileSizes
  /\ filteredChanges = <<>>
  /\ refiltered = <<>>
  /\ fpc = "start"
  /\ NoPatch
  /\ NoParse
  /\ NoSession
  /\ NoReview
  /\ NoChat
  /\ NoRun

NextFilter == FilterChanges \/ FilterAgain

SpecFilter == InitFilter /\ [][NextFilter]_vars

RECURSIVE IsSubsequence(_, _)
\* sub can be had from seq by leaving elements out
IsSubsequence(sub, seq) ==
  IF sub = <<>> THEN TRUE
  ELSE IF seq = <<>> THEN FALSE
  ELSE IF Head(sub) = Head(seq) THEN IsSubsequence(Tail(sub), Tail(seq))
  ELSE IsSubsequence(sub, Tail(seq))

\* some pattern matches the full path or the base name of the file
MatchesPathOrBase(path, patterns) ==
  \E i \in 1..Len(patterns) :
    Match(patterns[i], path) \/ Match(patterns[i], Base(path))

\* the positions of cs holding a file no pattern rule matches and within max
Passing(cs, patterns, max) ==
  {i \in 1..Len(cs) : ~shouldIgnoreFile(cs[i].Path, patterns) /\ cs[i].ContentLen <= max}

\* what the claim says of a filter run with size limit max
FilterContract(max) ==
  fpc # "start"
  => /\ IsSubsequence(filteredChanges, allChanges)
     /\ \A k \in 1..Len(filteredChanges) :
          /\ ~MatchesPathOrBase(filteredChanges[k].Path, ignorePatterns)
          /\ filteredChanges[k].ContentLen <= max
     /\ Len(filteredChanges) = Cardinality(Passing(allChanges, ignorePatterns, max))
     /\ \A i \in Passing(allChanges, ignorePatterns, max) :
          \E k \in 1..Len(filteredChanges) : filteredChanges[k] = allChanges[i]

\* C22 as stated: the filtered list is a subsequence of the changes, holds no
\* file a pattern matches by full path or base name and no file longer than
\* the max size, and holds every file no rule matches that is within the max size
C22_FilterByConfiguredMax == FilterContract(maxFileSize)

\* C22, with the max size the filter works with: a configured 0 is the
\* default of 100000 bytes
C22_FilterByEffectiveMax == FilterContract(effectiveMaxFileSize(maxFileSize))

\* C22 witness: a run that passes over one file for its base name and keeps
\* the other
C22_Witness ==
  /\ fpc = "filtered"
  /\ maxFileSize = 1
  /\ ignorePatterns = <<<<"*", "b">>>>
  /\ allChanges = << [Path |-> <<"a", "/", "b">>, ContentLen |-> 1],
                     [Path |-> <<"b", "/", "a">>, ContentLen |-> 1] >>
  /\ filteredChanges = << [Path |-> <<"b", "/", "a">>, ContentLen |-> 1] >>

\* C23: the filter applied, with the same patterns and max size, to what it
\* kept returns it unchanged
C23_FilterIdempotent == fpc = "refiltered" => refiltered = filteredChanges

\* C23 witness: a second run over a list the first run shortened
C23_Witness ==
  /\ fpc = "refiltered"
  /\ Len(filteredChanges) = 1
  /\ Len(allChanges) = 2
  /\ refiltered = filteredChanges

---------------------------------------------------------------------------
(* Staging failures *)

\* C26: when applyFix has written the new content and git add fails, applyFix
\* still returns true, the file holds the new content, and the session counts
\* the suggestion as fixed and moves to the next one.
C26_StageFailureNotFatal ==
  [][(event'.kind = "fix" /\ last'.warned)
     => /\ last'.wrote /\ last'.staged
        /\ last'.ok /\ event'.ok
        /\ worktree'[last'.sug.File]
             = Replace(worktree[last'.sug.File], last'.sug.OriginalCode,
                       last'.sug.SuggestFix, 1)
        /\ worktree'[last'.sug.File] # worktree[last'.sug.File]
        /\ index' = index
        /\ session'.fixed = session.fixed + 1
        /\ session'.skipped = session.skipped
        /\ session'.current = session.current + 1
        /\ pc' = "prompt"]_vars

\* C26 witness: a fix was written, could not be staged, and was counted
C26_Witness ==
  /\ event.kind = "fix" /\ event.ok
  /\ last.warned
  /\ session.fixed = 1 /\ session.current = 1
  /\ index[last.sug.File] # worktree[last.sug.File]
  /\ index[last.sug.File] = last.indexBefore[last.sug.File]

---------------------------------------------------------------------------
(* The fields of the suggestions the parser emits *)

\* C28: every suggestion the parser emits has EndLine >= Line; a record with
\* a LINE field and no END_LINE field is emitted with EndLine equal to Line.
C28_EndLineAtLeastLine ==
  ppc = "done"
  => \A k \in 1..Len(ret.suggestions) :
       ret.suggestions[k].EndLine >= ret.suggestions[k].Line

SeverityError == <<"e", "r", "r", "o", "r">>
SeverityWarning == <<"w", "a", "r", "n", "i", "n", "g">>
SeverityInfo == <<"i", "n", "f", "o">>
SeverityHint == <<"h", "i", "n", "t">>
Severities == {SeverityError, SeverityWarning, SeverityInfo, SeverityHint}

\* C29: every suggestion the parser emits has a severity that is one of
\* error, warning, info and hint, whatever the reply says of SEVERITY.
C29_SeverityInDomain ==
  ppc = "done"
  => \A k \in 1..Len(ret.suggestions) : ret.suggestions[k].Severity \in Severities

\* the lines of the reply from the i-th line, a --- line, up to the next ---
RecordAt(i) ==
  LET later == {j \in (i + 1)..Len(lines) : lines[j] = kSep}
      stop == IF later = {} THEN Len(lines) + 1
              ELSE CHOOSE j \in later : \A m \in later : j <= m
  IN SubSeq(lines, i + 1, stop - 1)

\* the record has a non-empty title: its last TITLE line has a value
Titled(rec) ==
  LET ts == {j \in 1..Len(rec) : hasPrefix(rec[j], pTITLE)}
  IN /\ ts # {}
     /\ parseStringValue(rec[CHOOSE j \in ts : \A m \in ts : m <= j], pTITLE) # Empty

\* the record has no block delimiter at all, so no malformed block
WithoutBlock(rec) == \A j \in 1..Len(rec) : rec[j] \notin {kOpen, kClose}

\* the reply has one <<< line and no >>> line: one block that is never closed
OneUnclosedBlock ==
  /\ Cardinality({j \in 1..Len(lines) : lines[j] = kOpen}) = 1
  /\ \A j \in 1..Len(lines) : lines[j] # kClose

\* C30: when one record of the reply has a single malformed field, a <<<
\* that is never closed, every other record with a non-empty title is emitted.
C30_OneMalformedFieldTolerated ==
  (ppc = "done" /\ OneUnclosedBlock)
  => Len(ret.suggestions)
       >= Cardinality({i \in 1..Len(lines) :
                         /\ lines[i] = kSep
                         /\ WithoutBlock(RecordAt(i))
                         /\ Titled(RecordAt(i))})

---------------------------------------------------------------------------
(* Client.Chat: the mutex, the session, its events and the done channel *)

\* the goroutines that call Chat on the one Client
Callers == {"g1", "g2"}

Unlocked == "unlocked"

\* a pointer is <<>> when nil and <<v>> when it points to v; so is an error
Nil == <<>>

\* the session events the SDK can deliver to the handler
SessionEvents ==
  { [Type |-> "assistant.message", Content |-> <<<<"m">>>>],
    [Type |-> "assistant.message", Content |-> Nil],
    [Type |-> "session.idle", Content |-> Nil],
    [Type |-> "session.error", Content |-> <<<<"e">>>>],
    [Type |-> "session.error", Content |-> Nil],
    [Type |-> "session.start", Content |-> Nil] }

\* a caller outside Chat, and the locals of a call as Chat declares them;
\* delivered counts the events of the call and errorSeen tells that a
\* session.error came while done was open (both history)
NewCall ==
  [pc |-> "idle", done |-> "open", sessionErr |-> Nil, response |-> Empty,
   subscribed |-> FALSE, delivered |-> 0, errorSeen |-> FALSE, panicked |-> FALSE,
   result |-> <<>>]

\* close(done): closing a closed channel panics
closeDone(call) ==
  IF call.done = "closed" THEN [call EXCEPT !.panicked = TRUE]
  ELSE [call EXCEPT !.done = "closed"]

\* the handler Chat subscribes with session.On
handler(call, ev) ==
  CASE ev.Type = "assistant.message" ->
         IF ev.Content # Nil
           THEN [call EXCEPT !.response = call.response \o ev.Content[1]]
           ELSE call
    [] ev.Type = "session.idle" -> closeDone(call)
    [] ev.Type = "session.error" ->
         closeDone(IF ev.Content # Nil
                     THEN [call EXCEPT !.sessionErr = <<ev.Content[1]>>]
                     ELSE call)
    [] OTHER -> call

\* a mutex that lets every caller in
canLockAlways(m) == TRUE

\* c.mu.Lock() goes on only when no caller holds the mutex
canLock(m) == m = Unlocked

\* Chat returns: the deferred unsubscribe, session.Destroy and c.mu.Unlock run
returnFrom(call, reply, err) ==
  [call EXCEPT !.pc = "idle", !.subscribed = FALSE,
               !.result = <<[reply |-> reply, err |-> err]>>]

\* what Chat returns once done is closed
chatResult(call) ==
  IF call.sessionErr # Nil
    THEN returnFrom(call, Empty, TRUE)
    ELSE returnFrom(call, call.response, FALSE)

\* a caller calls Chat, and is at c.mu.Lock()
ChatCall(c) ==
  /\ ~crashed
  /\ chat[c].pc = "idle"
  /\ started[c] < MaxCalls
  /\ chat' = [chat EXCEPT ![c] = [NewCall EXCEPT !.pc = "lock"]]
  /\ started' = [started EXCEPT ![c] = @ + 1]
  /\ UNCHANGED <<mu, returned, crashed>>
  /\ UNCHANGED <<patchVars, parseVars, sessionVars, reviewVars, filterVars, runVars>>

\* c.mu.Lock()
ChatLock(c) ==
  /\ ~crashed
  /\ chat[c].pc = "lock"
  /\ canLock(mu)
  /\ mu' = c
  /\ chat' = [chat EXCEPT ![c].pc = "create"]
  /\ UNCHANGED <<started, returned, crashed>>
  /\ UNCHANGED <<patchVars, parseVars, sessionVars, reviewVars, filterVars, runVars>>

\* CreateSession: a session, or an error that Chat returns
ChatCreateSession(c) ==
  /\ ~crashed
  /\ chat[c].pc = "create"
  /\ \E ok \in BOOLEAN :
       IF ok
       THEN /\ chat' = [chat EXCEPT ![c].pc = "subscribe"]
            /\ UNCHANGED <<mu, returned>>
       ELSE /\ chat' = [chat EXCEPT ![c] = returnFrom(@, Empty, TRUE)]
            /\ mu' = Unlocked
            /\ returned' = [returned EXCEPT ![c] = @ + 1]
  /\ UNCHANGED <<started, crashed>>
  /\ UNCHANGED <<patchVars, parseVars, sessionVars, reviewVars, filterVars, runVars>>

\* done := make(chan bool); session.On(handler)
ChatSubscribe(c) ==
  /\ ~crashed
  /\ chat[c].pc = "subscribe"
  /\ chat' = [chat EXCEPT ![c].pc = "send", ![c].subscribed = TRUE]
  /\ UNCHANGED <<mu, started, returned, crashed>>
  /\ UNCHANGED <<patchVars, parseVars, sessionVars, reviewVars, filterVars, runVars>>

\* session.Send: the prompt is sent, or an error that Chat returns
ChatSend(c) ==
  /\ ~crashed
  /\ chat[c].pc = "send"
  /\ \E ok \in BOOLEAN :
       IF ok
       THEN /\ chat' = [chat EXCEPT ![c].pc = "wait"]
            /\ UNCHANGED <<mu, returned>>
       ELSE /\ chat' = [chat EXCEPT ![c] = returnFrom(@, Empty, TRUE)]
            /\ mu' = Unlocked
            /\ returned' = [returned EXCEPT ![c] = @ + 1]
  /\ UNCHANGED <<started, crashed>>
  /\ UNCHANGED <<patchVars, parseVars, sessionVars, reviewVars, filterVars, runVars>>

\* the SDK delivers an event to the handler of a subscribed call; a second
\* close of done takes the process down
ChatEvent(c) ==
  /\ ~crashed
  /\ chat[c].subscribed
  /\ chat[c].delivered < MaxEvents
  /\ \E ev \in SessionEvents :
       LET after == handler([chat[c] EXCEPT
                               !.delivered = @ + 1,
                               !.errorSeen = @ \/ (ev.Type = "session.error"
                                                   /\ chat[c].done = "open")], ev)
       IN /\ chat' = [chat EXCEPT ![c] = after]
          /\ crashed' = after.panicked
  /\ UNCHANGED <<mu, started, returned>>
  /\ UNCHANGED <<patchVars, parseVars, sessionVars, reviewVars, filterVars, runVars>>

\* <-done, then the error or the reply is returned
ChatReturn(c) ==
  /\ ~crashed
  /\ chat[c].pc = "wait"
  /\ chat[c].done = "closed"
  /\ chat' = [chat EXCEPT ![c] = chatResult(@)]
  /\ mu' = Unlocked
  /\ returned' = [returned EXCEPT ![c] = @ + 1]
  /\ UNCHANGED <<started, crashed>>
  /\ UNCHANGED <<patchVars, parseVars, sessionVars, reviewVars, filterVars, runVars>>

InitChat ==
  /\ mu = Unlocked
  /\ chat = [c \in Callers |-> NewCall]
  /\ started = [c \in Callers |-> 0]
  /\ returned = [c \in Callers |-> 0]
  /\ crashed = FALSE
  /\ NoPatch
  /\ NoParse
  /\ NoSession
  /\ NoReview
  /\ NoFilter
  /\ NoRun

NextChat ==
  \E c \in Callers :
    \/ ChatCall(c)
    \/ ChatLock(c)
    \/ ChatCreateSession(c)
    \/ ChatSubscribe(c)
    \/ ChatSend(c)
    \/ ChatEvent(c)
    \/ ChatReturn(c)

SpecChat == InitChat /\ [][NextChat]_vars

\* the caller is in Chat past c.mu.Lock(): it has, or is about to have, a
\* session with the assistant
InProgress(c) == chat[c].pc \in {"create", "subscribe", "send", "wait"}

\* C27: at most one Chat call on the Client is in progress at any moment, and
\* a caller starts its next call only after its last call has returned.
C27_OneCallAtATime ==
  /\ [](\A c, d \in Callers : (InProgress(c) /\ InProgress(d)) => c = d)
  /\ [](\A c \in Callers : started[c] <= returned[c] + 1)
  /\ [][\A c \in Callers :
          started'[c] > started[c] => returned[c] = started[c]]_vars

\* C27 witness: g1 waits for the reply of its second call while g2 has called
\* Chat and is held at the mutex
C27_Witness ==
  /\ chat["g1"].pc = "wait"
  /\ returned["g1"] = 1 /\ started["g1"] = 2
  /\ chat["g2"].pc = "lock"
  /\ mu = "g1"

---------------------------------------------------------------------------
(* runReview: from the staged changes to the exit status of the process *)

Configs == [strict : BOOLEAN, hook : BOOLEAN, output_markdown : BOOLEAN]

\* the ways runReview ends before a review: with its exit status
EarlyExits ==
  { [why |-> "not a git repository", code |-> 1],
    [why |-> "GetStagedChanges failed", code |-> 1],
    [why |-> "no changes to review", code |-> 0],
    [why |-> "NewReviewer failed", code |-> 1] }

\* a commit outcome that always lets the commit through
commitExitLenient(strict, skipped) == 0

\* case ActionCommit: exit status 1 in strict mode with a skipped suggestion,
\* otherwise runReview returns and the process exits with status 0
commitExit(strict, skipped) == IF strict /\ skipped > 0 THEN 1 ELSE 0

\* a run that never takes the review for clean
noIssuesNever(suggestions) == FALSE

\* if len(result.Suggestions) == 0: "No issues found", and runReview returns
noIssues(suggestions) == Len(suggestions) = 0

\* runReview ends before it has a review
RunEarlyExit ==
  /\ runpc = "start"
  /\ \E x \in EarlyExits : exitCode' = <<x.code>>
  /\ runpc' = "exited"
  /\ UNCHANGED <<config, found>>
  /\ UNCHANGED <<patchVars, parseVars, sessionVars, reviewVars, filterVars, chatVars>>

\* Review has returned suggestions: no suggestion ends the run with success,
\* output_markdown writes the suggestions file and ends the run, otherwise
\* the interactive session is started
RunReviewed(suggestions) ==
  /\ runpc = "start"
  /\ found' = Len(suggestions)
  /\ IF noIssues(suggestions)
     THEN /\ exitCode' = <<0>>
          /\ runpc' = "exited"
          /\ UNCHANGED <<session, pc, outcome>>
     ELSE IF config.output_markdown
     THEN /\ \E generated \in BOOLEAN : exitCode' = <<IF generated THEN 0 ELSE 1>>
          /\ runpc' = "exited"
          /\ UNCHANGED <<session, pc, outcome>>
     ELSE /\ session' = NewReviewSession(suggestions)
          /\ pc' = "run"
          /\ outcome' = <<>>
          /\ runpc' = "session"
          /\ UNCHANGED exitCode
  /\ UNCHANGED <<config, eof, event, typed>>
  /\ UNCHANGED <<patchVars, parseVars, reviewVars, filterVars, chatVars>>

\* the switch on the outcome of the session: commit, abort, or runReview again
RunOutcome ==
  /\ runpc = "session"
  /\ pc = "done"
  /\ IF outcome[1].Action = "commit"
     THEN /\ exitCode' = <<commitExit(config.strict, outcome[1].Skipped)>>
          /\ runpc' = "exited"
          /\ UNCHANGED <<session, pc, outcome>>
     ELSE IF outcome[1].Action = "abort"
     THEN /\ exitCode' = <<1>>
          /\ runpc' = "exited"
          /\ UNCHANGED <<session, pc, outcome>>
     ELSE /\ runpc' = "start"
          /\ session' = NewReviewSession(<<>>)
          /\ pc' = "idle"
          /\ outcome' = <<>>
          /\ UNCHANGED exitCode
  /\ UNCHANGED <<config, found, eof, event, typed>>
  /\ UNCHANGED <<patchVars, parseVars, reviewVars, filterVars, chatVars>>

---------------------------------------------------------------------------
(* A run of the review command, under every setting of the flags *)

\* what Review can return for the staged file f1
RunResults ==
  { <<>>,
    <<Sug("f1", <<"a">>, <<"b">>)>>,
    <<Sug("f1", <<"a">>, NA)>>,
    <<Sug("f1", <<"a">>, <<"b">>), Sug("f1", <<"a">>, NA)>> }

InitRun ==
  /\ worktree = [f \in Files |-> IF f = "f1" THEN <<"a", "b", "a">> ELSE <<"a", "b">>]
  /\ index = worktree
  /\ last = NoCall
  /\ NoParse
  /\ NoSession
  /\ NoReview
  /\ NoFilter
  /\ NoChat
  /\ config \in Configs
  /\ runpc = "start"
  /\ found = -1
  /\ exitCode = <<>>

NextRun ==
  \/ RunEarlyExit
  \/ \E suggestions \in RunResults : RunReviewed(suggestions)
  \/ RunOutcome
  \/ Next

SpecRun == InitRun /\ [][NextRun]_vars

\* C24: in strict mode a session that ends with outcome commit and a skipped
\* suggestion ends the process with a non-zero status; a commit outcome
\* without strict mode, or with nothing skipped, ends it with status 0.
C24_StrictBlocksSkipped ==
  [][(runpc = "session" /\ pc = "done" /\ outcome[1].Action = "commit")
     => /\ runpc' = "exited"
        /\ (config.strict /\ outcome[1].Skipped > 0) => exitCode' # <<0>>
        /\ (~config.strict \/ outcome[1].Skipped = 0) => exitCode' = <<0>>]_vars

\* C24 witness: a strict run that was stopped after a commit outcome with one
\* suggestion fixed and one skipped
C24_Witness ==
  /\ config.strict
  /\ runpc = "exited"
  /\ pc = "done"
  /\ outcome = <<[Action |-> "commit", Fixed |-> 1, Skipped |-> 1]>>
  /\ exitCode = <<1>>

\* C25: with the hook flag no interactive session is started and no input is
\* read, and the process exits with an error status whenever the review
\* found a suggestion.
C25_HookModeNonInteractive ==
  config.hook
  => /\ pc = "idle"
     /\ typed = <<>>
     /\ (runpc = "exited" /\ found > 0) => exitCode # <<0>>

---------------------------------------------------------------------------
(* Blocks: how one is opened, what it holds, how it is closed *)

\* the line before the one the parser is at is an ORIGINAL: or FIX: field line
AfterBlockField ==
  /\ pos > 1
  /\ hasPrefix(lines[pos - 1], pORIGINAL) \/ hasPrefix(lines[pos - 1], pFIX)

\* C31: a <<< line opens a block only when the parser is in a record and the
\* line before it is an ORIGINAL: or FIX: field line; in any other position
\* it opens no block.
C31_BlockOpensOnlyAfterBlockField ==
  [][(ppc = "loop" /\ ~p.inMultiLine /\ p'.inMultiLine)
     => (p.current # <<>> /\ AfterBlockField)]_vars

\* a record with one block: the lines a block can hold are a blank line, a
\* line with white space around it, a line that looks like a field, the
\* delimiters --- and <<<, and a line of code
lnSpaced == <<" ", "a", " ">>
lnTitleX == pTITLE \o <<" ", "x">>
BlockBodyLines == { <<>>, lnSpaced, lnTitleX, kSep, kOpen, lnCode }

\* what follows the block: nothing, the closing >>>, or >>> and a FIX: line
BlockEndings == { <<>>, <<kClose>>, <<kClose, lnFixNA>> }

BlockReplies ==
  {joinLines(<<kSep, lnTitle, opened, kOpen>> \o body \o ending) :
     opened \in {pORIGINAL, pFIX, lnLine7},
     body \in StrUpTo(BlockBodyLines, MaxBlockLines),
     ending \in BlockEndings}

InitBlock ==
  /\ \E r \in BlockReplies : input = [response |-> r, file |-> "f1"]
  /\ lines = <<>>
  /\ pos = 0
  /\ p = ParserStart
  /\ ppc = "start"
  /\ ret = NoReturn
  /\ sent = <<>>
  /\ NoPatch
  /\ NoSession
  /\ NoReview
  /\ NoExt

SpecBlock == InitBlock /\ [][NextParse]_vars

\* the record in progress is as before, but for the field named
SameBut(field) ==
  /\ p'.current # <<>>
  /\ \A f \in DOMAIN p.current[1] : f # field => p'.current[1][f] = p.current[1][f]

\* C32: in a block every line but >>> is kept as it is and neither sets a
\* field nor starts a record; >>> writes the lines, joined by line breaks, to
\* the field the block was opened for and to no other, and ends the block.
C32_BlockVerbatim ==
  [][(ppc = "loop" /\ p.inMultiLine /\ pos' = pos + 1)
     => IF lines[pos] # kClose
        THEN /\ p'.multiLineContent = Append(p.multiLineContent, lines[pos])
             /\ p'.inMultiLine
             /\ p'.multiLineField = p.multiLineField
             /\ p'.current = p.current
             /\ p'.suggestions = p.suggestions
        ELSE /\ ~p'.inMultiLine
             /\ p'.suggestions = p.suggestions
             /\ p.multiLineField = "ORIGINAL"
                => /\ p'.current[1].OriginalCode = joinLines(p.multiLineContent)
                   /\ SameBut("OriginalCode")
             /\ p.multiLineField = "FIX"
                => /\ p'.current[1].SuggestFix = joinLines(p.multiLineContent)
                   /\ SameBut("SuggestFix")]_vars

\* C32 witness: a FIX block of a field-like line and a --- line came out as
\* the fix of the one record, whose title and original are untouched
C32_Witness ==
  /\ ppc = "done"
  /\ Len(ret.suggestions) = 1
  /\ ret.suggestions[1].SuggestFix = joinLines(<<lnTitleX, kSep>>)
  /\ ret.suggestions[1].Title = <<"t">>
  /\ ret.suggestions[1].OriginalCode = Empty

---------------------------------------------------------------------------
(* Replies of several well-formed records *)

\* well-formed records with a title: their lines, and the fields they set
RecordForms ==
  { [lines |-> <<lnTitle>>, Title |-> <<"t">>, Line |-> 0, OriginalCode |-> Empty],
    [lines |-> <<lnLine7, lnTitleX>>, Title |-> <<"x">>, Line |-> 7,
     OriginalCode |-> Empty],
    [lines |-> <<lnTitle, pORIGINAL, kOpen, lnCode, kClose>>, Title |-> <<"t">>,
     Line |-> 0, OriginalCode |-> lnCode] }

\* the suggestion a record stands for
SuggestionOf(form, file) ==
  [NewSuggestion(file) EXCEPT !.Title = form.Title, !.Line = form.Line,
                              !.OriginalCode = form.OriginalCode]

RECURSIVE SeparatedLines(_)
\* the lines of the records with a --- line between consecutive records
SeparatedLines(forms) ==
  IF Len(forms) = 1 THEN forms[1].lines
  ELSE forms[1].lines \o <<kSep>> \o SeparatedLines(Tail(forms))

InitRecords ==
  /\ \E forms \in StrUpTo(RecordForms, MaxSuggestions) \ {<<>>},
        leading \in BOOLEAN, closing \in BOOLEAN :
       /\ sent = [k \in 1..Len(forms) |-> SuggestionOf(forms[k], "f1")]
       /\ input = [response |->
                     joinLines((IF leading THEN <<kSep>> ELSE <<>>)
                               \o SeparatedLines(forms)
                               \o (IF closing THEN <<kSep>> ELSE <<>>)),
                   file |-> "f1"]
  /\ lines = <<>>
  /\ pos = 0
  /\ p = ParserStart
  /\ ppc = "start"
  /\ ret = NoReturn
  /\ NoPatch
  /\ NoSession
  /\ NoReview
  /\ NoExt

SpecRecords == InitRecords /\ [][NextParse]_vars

\* the reply begins with a --- line
LeadingSeparator == splitLines(input.response)[1] = kSep

---------------------------------------------------------------------------
(* The counters of the session *)

\* the steps of the loop of Run that look at the current suggestion
LoopSteps == {"readerror", "fix", "confirm", "skip", "view", "quit", "invalid"}

\* C34: in a session over N suggestions 0 <= current <= N, fixed and skipped
\* are not negative and fixed + skipped <= current; none of the three ever
\* decreases; the list is indexed only at a current below N.
C34_IndexInvariant ==
  /\ [](/\ 0 <= session.current
        /\ session.current <= Len(session.suggestions)
        /\ session.fixed >= 0
        /\ session.skipped >= 0
        /\ session.fixed + session.skipped <= session.current
        /\ pc = "confirm" => session.current < Len(session.suggestions))
  /\ [][/\ session'.current >= session.current
        /\ session'.fixed >= session.fixed
        /\ session'.skipped >= session.skipped
        /\ event'.kind \in LoopSteps
           => session.current < Len(session.suggestions)]_vars

\* C34 witness: a session over two suggestions at its end, one fixed, one
\* passed over on a failed read
C34_Witness ==
  /\ pc = "decide"
  /\ Len(session.suggestions) = 2
  /\ session.current = 2
  /\ session.fixed = 1
  /\ session.skipped = 0

\* the step is a failed read at the prompt of a suggestion
FailedReadAtPrompt ==
  /\ pc = "prompt"
  /\ session.current < Len(session.suggestions)
  /\ typed' # <<>>
  /\ typed'[1].err

\* C35 as stated: in every state of the loop fixed + skipped = current and
\* skippedMap holds exactly skipped indices, so that at the summary nothing
\* remains, whatever the input, failed reads included
C35_AllPassedCounted ==
  /\ session.fixed + session.skipped = session.current
  /\ Cardinality(session.skippedMap) = session.skipped
  /\ pc = "decide"
     => Len(session.suggestions) - session.fixed - session.skipped = 0

\* C35, with the failed reads: every step moves the index by what it adds to
\* fixed and skipped, but a failed read at the prompt, which moves the index
\* and counts nothing; so fixed + skipped = current until a read fails, and
\* skippedMap holds exactly skipped indices, all of them passed.
C35_PassedCountedButFailedReads ==
  /\ [](/\ Cardinality(session.skippedMap) = session.skipped
        /\ \A i \in session.skippedMap : 0 <= i /\ i < session.current
        /\ session.fixed + session.skipped <= session.current
        /\ ~eof => session.fixed + session.skipped = session.current)
  /\ [][session'.current - session.current
          = (session'.fixed - session.fixed) + (session'.skipped - session.skipped)
            + (IF FailedReadAtPrompt THEN 1 ELSE 0)]_vars

\* C35 witness: fix, then skip, of two suggestions: at the summary one is
\* fixed, one skipped and none remains
C35_Witness ==
  /\ pc = "decide"
  /\ ~eof
  /\ Len(session.suggestions) = 2
  /\ session.fixed = 1
  /\ session.skipped = 1
  /\ session.skippedMap = {1}

---------------------------------------------------------------------------
(* The completion of a Chat call *)

\* C36: whatever events the session delivers while the handler is
\* subscribed, done is closed at most once; no call takes the process down.
C36_DoneClosedAtMostOnce ==
  /\ ~crashed
  /\ \A c \in Callers : ~chat[c].panicked

\* C37: when the session delivers a session.error event before completion,
\* with or without content, Chat returns an error and no reply text.
C37_SessionErrorIsReturned ==
  \A c \in Callers :
    (chat[c].pc = "idle" /\ chat[c].result # <<>> /\ chat[c].errorSeen)
    => chat[c].result[1].err

---------------------------------------------------------------------------
(* A fix on a file whose working-tree content is not what is staged *)

\* staged contents of f1 that the working tree has moved on from
StagedVersions == { <<"a">>, <<"b", "a">> }

InitStaged ==
  /\ \E c \in Contents : worktree = [f \in Files |-> IF f = "f1" THEN c ELSE <<"a", "b">>]
  /\ \E v \in {worktree["f1"]} \cup StagedVersions : index = [worktree EXCEPT !["f1"] = v]
  /\ last = NoCall
  /\ NoParse
  /\ NoSession
  /\ NoReview
  /\ NoExt

SpecStaged == InitStaged /\ [][NextPatch]_vars

\* C38: after a successful fix the staged content of the file is its staged
\* content of before with the first occurrence of the original snippet
\* replaced by the fix, and nothing else has become staged, also when the
\* working-tree file differed from the staged content.
C38_StagedEditedBySuggestion ==
  (last.n = 1 /\ last.ok)
  => /\ index[last.sug.File]
          = Replace(last.indexBefore[last.sug.File], last.sug.OriginalCode,
                    last.sug.SuggestFix, 1)
     /\ \A f \in Files \ {last.sug.File} : index[f] = last.indexBefore[f]

---------------------------------------------------------------------------
(* runReview from its call of Review on: the review, then what the run does
   with its result *)

\* result, err := reviewer.Review(changes): an error ends the run with
\* status 1, a result goes on as in RunReviewed
RunAfterReview ==
  /\ rpc = "done"
  /\ IF rret[1].err # "nil"
     THEN /\ runpc = "start"
          /\ exitCode' = <<1>>
          /\ runpc' = "exited"
          /\ UNCHANGED <<config, found, sessionVars>>
          /\ UNCHANGED <<patchVars, parseVars, reviewVars, filterVars, chatVars>>
     ELSE RunReviewed(rret[1].result.Suggestions)

InitReviewRun ==
  /\ changes \in StrUpTo(ReviewChanges, MaxChanges)
  /\ assistant \in [1..Len(changes) -> ReviewAnswers]
  /\ result = NewReviewResult
  /\ ri = 0
  /\ rpc = "start"
  /\ calls = <<>>
  /\ rret = <<>>
  /\ NoPatch
  /\ NoParse
  /\ NoSession
  /\ NoFilter
  /\ NoChat
  /\ config \in {c \in Configs : ~c.strict /\ ~c.hook}
  /\ runpc = "start"
  /\ found = -1
  /\ exitCode = <<>>

\* the run is followed up to the start of the session
NextReviewRun ==
  \/ NextReview
  \/ RunAfterReview

SpecReviewRun == InitReviewRun /\ [][NextReviewRun]_vars

\* the change list is not empty and the assistant call fails for every
\* change that is not binary
AllCallsFailed ==
  /\ Len(changes) > 0
  /\ \A k \in 1..Len(changes) : ~changes[k].IsBinary => assistant[k].fails

\* C39: when the assistant call fails for every non-binary file of a
\* non-empty change list, Review returns no suggestion and a nil error, no
\* session is started, and the run ends as a clean review: "no issues
\* found", exit status 0.
C39_AllFailedEndsAsClean ==
  AllCallsFailed
  => /\ pc = "idle" /\ runpc # "session" /\ typed = <<>>
     /\ rpc = "done" => (rret[1].result.Suggestions = <<>> /\ rret[1].err = "nil")
     /\ runpc = "exited" => (found = 0 /\ exitCode = <<0>>)

\* C39 witness: two files, both asked about, both calls failed, and the run
\* is over with status 0
C39_Witness ==
  /\ AllCallsFailed
  /\ Len(changes) = 2
  /\ Len(calls) = 2
  /\ runpc = "exited"
  /\ exitCode = <<0>>

---------------------------------------------------------------------------
(* Session termination *)

\* a step that leaves the suggestion behind or ends the loop: a fix that
\* worked, a skip, a confirmed skip, a failed read, quit, the summary and the
\* answer to the commit prompt
AdvancingStep ==
  /\ Next
  /\ \/ session'.current > session.current
     \/ pc = "run"
     \/ pc' = "decide"
     \/ pc' = "done"

\* the sessions that are followed to their end: none, one and two
\* suggestions, with a fix that applies, one that does not and none
LiveSessions ==
  { <<>>,
    <<Sug("f1", <<"a">>, <<"b">>)>>,
    <<Sug("f1", <<"b", "b">>, <<"a">>), Sug("f2", <<"a">>, NA)>>,
    <<Sug("f2", <<"b">>, <<"a", "a">>), Sug("f1", <<"a">>, <<"b">>)>> }

InitLive ==
  /\ worktree = [f \in Files |-> IF f = "f1" THEN <<"a", "b", "a">> ELSE <<"a", "b">>]
  /\ index = worktree
  /\ last = NoCall
  /\ NoParse
  /\ \E l \in LiveSessions : session = NewReviewSession(l)
  /\ pc = "run"
  /\ eof = FALSE
  /\ outcome = <<>>
  /\ event = Event("none", FALSE)
  /\ typed = <<>>
  /\ NoReview
  /\ NoExt

\* the program takes its next step whenever it has one, and the user does not
\* go on for ever with inputs that leave the session at the same suggestion
SpecLive == InitLive /\ [][Next]_vars /\ WF_vars(Next) /\ SF_vars(AdvancingStep)

\* the steps that the session counts as leaving the suggestion
Leaving ==
  \/ event'.kind \in {"skip", "readerror"}
  \/ event'.kind \in {"fix", "confirm"} /\ event'.ok

\* C40: a fix that worked, a skip, a confirmed skip and a failed read each
\* increase the index by exactly one, and quit ends the session; so the
\* session reaches a terminal outcome (commit, abort or re-review), and once a
\* read has met the end of the input before the session was over, the session
\* ends with outcome abort and no file or index entry changes any more.
C40_SessionTerminates ==
  /\ [][Leaving => (session'.current = session.current + 1)]_vars
  /\ [][(event'.kind = "quit") => (pc' = "done" /\ outcome'[1].Action = "abort")]_vars
  /\ [][eof => (worktree' = worktree /\ index' = index)]_vars
  /\ <>(pc = "done" /\ outcome[1].Action \in {"commit", "abort", "rereview"})
  /\ (eof /\ pc # "done") ~> (pc = "done" /\ outcome[1].Action = "abort")

\* C40 witness: a fix was applied, then the input ended, and the session of
\* two suggestions is over with outcome abort
C40_Witness ==
  /\ pc = "done"
  /\ eof
  /\ Len(session.suggestions) = 2
  /\ session.current = 2
  /\ session.fixed = 1
  /\ outcome[1].Action = "abort"

=============================================================================
